---- MODULE Spec2Model ----
(***************************************************************************)
(* A model of cclib's GAMESS log-file parser                               *)
(* (src/src/cclib/parser/gamessparser.py).                                 *)
(*                                                                         *)
(* The parser is line driven: the driver obtains one line at a time from   *)
(* inputfile and hands it to GAMESS.extract, which tests its triggers in   *)
(* source order; a sub-parser that fires may obtain further lines with     *)
(* inputfile.next() and rebinds the local name `line` while doing so.      *)
(*                                                                         *)
(* A line is modelled by what the code can observe of it:                  *)
(*   m  the fixed strings the code looks for that occur in the line at     *)
(*      the offsets the code tests (line[8:23] == ..., line.find(..) == 1) *)
(*   t  line.split(): the whitespace separated tokens, each a number       *)
(*      (float()/int() succeeds, value v) or a word (k is its spelling).   *)
(* inputfile is read on demand: every inputfile.next() draws the next line *)
(* of the log from the alphabet of the kind of log being parsed, or finds  *)
(* the stream exhausted.                                                   *)
(***************************************************************************)
EXTENDS Integers, Sequences, FiniteSets, TLC

VARIABLES
    logkind,   \* the kind of log file being parsed (selects the line alphabet)
    nread,     \* number of lines obtained from inputfile so far
    line,      \* extract's local `line`
    pc,        \* position in the parse: "driver", a trigger, a place in a sub-parser, "done"
    err,       \* "none", or the exception that aborted the parse
    self,      \* the attributes of the GAMESS object
    has,       \* names of the lazily created attributes that exist (hasattr)
    loc,       \* extract's other local variables
    gh         \* history of the current extract call and of the parse

vars == <<logkind, nread, line, pc, err, self, has, loc, gh>>

-----------------------------------------------------------------------------
(* Tokens and lines *)

Num(v) == [k |-> "num", v |-> v]
Word(s) == [k |-> s, v |-> 0]
WordV(s, v) == [k |-> s, v |-> v]
IsNum(tok) == tok.k = "num"
Ln(m, t) == [m |-> m, t |-> t]

\* the empty line: line.strip() is "" and line.split() is []
BlankLine == Ln({}, <<>>)
\* no line: the name `line` is not bound (outside extract)
NoLine == Ln({"<unbound>"}, <<>>)
\* inputfile.next() raises StopIteration
EOF == Ln({"<eof>"}, <<>>)

Strip(ln) == ln.t # <<>>

\* temp.index(word): position of the first token equal to word, 0 if none
IndexOf(t, word) ==
    IF \E i \in DOMAIN t : t[i].k = word
    THEN CHOOSE i \in DOMAIN t : t[i].k = word /\ \A j \in 1..(i-1) : t[j].k # word
    ELSE 0

Last(s) == s[Len(s)]

\* float(temp[i - 1]) for the i-th token of t: the error raised, or the value
FloatAt(t, i) ==
    IF i > Len(t) THEN [e |-> "IndexError", v |-> 0]
    ELSE IF ~IsNum(t[i]) THEN [e |-> "ValueError", v |-> 0]
    ELSE [e |-> "none", v |-> t[i].v]

-----------------------------------------------------------------------------
(* utils.convertor: a fixed table of multiplicative conversions.  Values   *)
(* are integers; the factors are the table's, scaled to integers.          *)
convertor(x, from, to) ==
    CASE from = "hartree" /\ to = "eV" -> x * 27211
      [] from = "hartree" /\ to = "cm-1" -> x * 219474
      [] from = "bohr" /\ to = "Angstrom" -> x * 529
      [] from = "Debye^2/amu-Angstrom^2" /\ to = "km/mol" -> x * 42255

-----------------------------------------------------------------------------
(* Lists and symmetry labels *)

\* as ListIndex, were the index counted from 1 in the code as well
ListIndexFromOne(idx, n) == IF 1 <= idx /\ idx <= n THEN idx ELSE 0

\* the position, counted from 1, that index idx has in a list of length n:
\* negative indices count from the end; 0 when the index is out of range
ListIndex(idx, n) ==
    IF 0 <= idx /\ idx < n THEN idx + 1
    ELSE IF -n <= idx /\ idx < 0 THEN n + idx + 1
    ELSE 0

\* s.replace(a, b) for single characters a and b
Replace(s, a, b) == [i \in DOMAIN s |-> IF s[i] = a THEN b ELSE s[i]]

\* as normalisesym, were the whole label lower-cased
normalisesymWholeLabel(label) ==
    IF Tail(label) = <<"'", "'">> THEN <<label[1], "\"">>
    ELSE Replace(Replace(label, "U", "u"), "G", "g")

normalisesym(label) ==
    LET end == IF Tail(label) = <<"'", "'">> THEN <<"\"">>
               ELSE Replace(Replace(Tail(label), "U", "u"), "G", "g")
    IN <<label[1]>> \o end

-----------------------------------------------------------------------------
(* The triggers of extract, in source order *)

Triggers == <<
    "OPTTOL", "FINAL", "RESULTS OF MOLLER-PLESSET", "CCD ENERGY:",
    "CCSD    ENERGY:", "MBPT(2) ENERGY:", "CHARGE OF MOLECULE",
    "EXCITATION ENERGIES", "SAPS", "DETS", "EXCITED STATE",
    "TRANSITION FROM THE GROUND STATE", "MAXIMUM GRADIENT",
    "ATOMIC COORDINATES", "EQUILIBRIUM GEOMETRY LOCATED",
    "COORDINATES OF ALL ATOMS ARE", "SCF CALCULATION",
    "NORMAL COORDINATE ANALYSIS", "ATOMIC BASIS SET", "EIGENVECTORS",
    "NUMBER OF OCCUPIED ORBITALS", "SYMMETRIES FOR INITIAL GUESS ORBITALS FOLLOW",
    "TOTAL NUMBER OF ATOMS", "NUMBER OF BASIS FUNCTIONS",
    "SPHERICAL HARMONICS KEPT", "TOTAL NUMBER OF MOS IN VARIATION SPACE",
    "OVERLAP MATRIX", "ECP POTENTIALS" >>

NTriggers == Len(Triggers)

TriggerIndex(name) == CHOOSE i \in 1..NTriggers : Triggers[i] = name

\* the if / elif / elif / elif statement of lines 653-667
ElifChain == { "NUMBER OF BASIS FUNCTIONS", "SPHERICAL HARMONICS KEPT",
               "TOTAL NUMBER OF MOS IN VARIATION SPACE", "OVERLAP MATRIX" }

\* as Matches, without "and not self.geooptfinished"
MatchesIgnoringFinished(name, ln, s) ==
    CASE name = "OPTTOL" ->
            \E i \in DOMAIN ln.t : ln.t[i].k \in {"OPTTOL", "OPTTOL="}
      [] name = "EIGENVECTORS" ->
            ln.m \cap {"EIGENVECTORS", "MOLECULAR OBRITALS"} # {}
      [] OTHER -> name \in ln.m

\* the condition of the trigger's if statement, for the line ln and object s
Matches(name, ln, s) ==
    CASE name = "OPTTOL" ->
            \E i \in DOMAIN ln.t : ln.t[i].k \in {"OPTTOL", "OPTTOL="}
      [] name = "COORDINATES OF ALL ATOMS ARE" ->
            name \in ln.m /\ ~s.geooptfinished
      \* line.find("EIGENVECTORS") == 10 or line.find("MOLECULAR OBRITALS") == 10:
      \* each text names the mark of a line that has it at offset 10
      [] name = "EIGENVECTORS" ->
            ln.m \cap {"EIGENVECTORS", "MOLECULAR OBRITALS"} # {}
      [] OTHER -> name \in ln.m

\* the first trigger at or after position i whose condition holds, or
\* NTriggers + 1 when extract reaches its end
FirstFrom(i, ln, s) ==
    IF \E j \in i..NTriggers : Matches(Triggers[j], ln, s)
    THEN CHOOSE j \in i..NTriggers :
            /\ Matches(Triggers[j], ln, s)
            /\ \A k \in i..(j-1) : ~Matches(Triggers[k], ln, s)
    ELSE NTriggers + 1

\* as After, were every trigger an elif of the one before it
AfterFirstMatchOnly(name) == NTriggers + 1

\* the position of the statement that follows trigger name's if statement
After(name) ==
    IF name \in ElifChain THEN TriggerIndex("ECP POTENTIALS")
    ELSE TriggerIndex(name) + 1

\* the place control reaches next, testing from position i on
Goto(i, ln, s) ==
    LET j == FirstFrom(i, ln, s)
    IN IF j > NTriggers THEN "driver" ELSE Triggers[j]

-----------------------------------------------------------------------------
(* Bounds: the longest log of each kind *)

MaxLinesDispatch == 4
MaxLinesGeo == 10
MaxLinesCC == 5
MaxLinesSCF == 8
MaxLinesOverlap == 15
MaxLinesFreq == 54
MaxLinesMP == 6
MaxLinesCIS == 7
MaxLinesECP == 10
MaxLinesBasis == 17
MaxLinesExc == 18
MaxLinesHomos == 6
MaxLinesEigen == 52
\* the longest symmetry label
MaxLabel == 3

MaxLines(kind) ==
    CASE kind = "dispatch" -> MaxLinesDispatch
      [] kind = "geoopt" -> MaxLinesGeo
      [] kind = "cc" -> MaxLinesCC
      [] kind = "scf" -> MaxLinesSCF
      [] kind = "overlap" -> MaxLinesOverlap
      [] kind = "freq" -> MaxLinesFreq
      [] kind = "mp" -> MaxLinesMP
      [] kind = "cis" -> MaxLinesCIS
      [] kind = "ecp" -> MaxLinesECP
      [] kind = "basis" -> MaxLinesBasis
      [] kind = "exc" -> MaxLinesExc
      [] kind = "homos" -> MaxLinesHomos
      [] kind = "eigen" -> MaxLinesEigen

-----------------------------------------------------------------------------
(* Line alphabets *)

TextLine == Ln({}, <<Word("text")>>)
\* " TOTAL NUMBER OF ATOMS = n"
NatomLine(n) == Ln({"TOTAL NUMBER OF ATOMS"}, <<Word("TOTAL"), Word("ATOMS"), Word("="), Num(n)>>)
AtomicCoordsLine == Ln({"ATOMIC COORDINATES"}, <<Word("ATOM"), Word("ATOMIC"), Word("COORDINATES")>>)
StdCoordsLine == Ln({"COORDINATES OF ALL ATOMS ARE"}, <<Word("COORDINATES"), Word("OF"), Word("ALL")>>)
\* " C           6.0     x  y  z"
CoordRow(z, x) == Ln({}, <<Word("C"), Num(z), Num(x), Num(x + 1), Num(x + 2)>>)
\* "        CCSD    ENERGY:     -1.23   CORR.E= ..." and its relatives
CcsdLine(v) == Ln({"CCSD    ENERGY:"}, <<Word("CCSD"), Word("ENERGY:"), Num(v)>>)
CcsdTLine(v) == Ln({"CCSD[T] ENERGY:"}, <<Word("CCSD[T]"), Word("ENERGY:"), Num(v)>>)
CcsdPTLine(v) == Ln({"CCSD(T) ENERGY:"}, <<Word("CCSD(T)"), Word("ENERGY:"), Num(v)>>)
\* " TOTAL NUMBER OF BASIS FUNCTIONS = n"
NbasisLine(n) == Ln({"NUMBER OF BASIS FUNCTIONS"}, <<Word("TOTAL"), Word("FUNCTIONS"), Word("="), Num(n)>>)

\* "..... DONE WITH MP%i ENERGY ....." % mplevel
DoneWith(n) ==
    CASE n = 2 -> "..... DONE WITH MP2 ENERGY ....."
      [] n = 3 -> "..... DONE WITH MP3 ENERGY ....."
      [] n = 4 -> "..... DONE WITH MP4 ENERGY ....."
      [] OTHER -> "..... DONE WITH MP? ENERGY ....."

\* the character line[27:28] of a line that carries digit n there
DigitAt27(n) ==
    CASE n = 2 -> "line[27:28]=2"
      [] n = 3 -> "line[27:28]=3"
      [] n = 4 -> "line[27:28]=4"
      [] OTHER -> "line[27:28]=?"

\* the lines a log of each kind is made of
Alphabet(kind) ==
    CASE kind = "dispatch" ->
        (
            LET FinalLine(v) == Ln({"FINAL"}, <<Word("FINAL"), Word("ENERGY"), Word("IS"), Num(v), Word("AFTER")>>)
                \* " FINAL R-B3LYP ENERGY IS     -382.0507446475 AFTER  10 ITERATIONS"
                FinalMethodLine(v) ==
                    Ln({"FINAL"}, <<Word("FINAL"), Word("R-B3LYP"), Word("ENERGY"), Word("IS"), Num(v),
                                    Word("AFTER"), Num(10), Word("ITERATIONS")>>)
                \* " FINAL ..." without the token IS
                FinalNoIs == Ln({"FINAL"}, <<Word("FINAL"), Word("ENERGY")>>)
                \* "          OPTTOL = 1.000E-04          RMIN   = 1.500E-03"
                OpttolLine(v) == Ln({}, <<Word("OPTTOL"), Word("="), Num(v), Word("RMIN")>>)
                \* " INPUT CARD> $STATPT OPTTOL=0.0001 NSTEP=100 $END"
                OpttolCard(v) == Ln({}, <<Word("INPUT"), Word("CARD>"), WordV("OPTTOL=", v)>>)
                \* " FINAL OPTTOL=... ENERGY IS ...": " FINAL" at offset 1 and OPTTOL in one line
                FinalOpttol(v, w) == Ln({"FINAL"}, <<Word("FINAL"), WordV("OPTTOL=", v), Word("IS"), Num(w)>>)
                \* "      MAXIMUM GRADIENT =  0.0027  RMS GRADIENT = 0.0011"
                MaxGradLine(a, b) ==
                    Ln({"MAXIMUM GRADIENT"},
                       <<Word("MAXIMUM"), Word("GRADIENT"), Word("="), Num(a),
                         Word("RMS"), Word("GRADIENT"), Word("="), Num(b)>>)
                \* " TOTAL NUMBER OF ATOMS ... MAXIMUM GRADIENT ...": two triggers in one line
                NatomMaxGrad(n) ==
                    Ln({"TOTAL NUMBER OF ATOMS", "MAXIMUM GRADIENT"},
                       <<Word("TOTAL"), Word("ATOMS"), Word("MAXIMUM"), Num(n),
                         Word("GRADIENT"), Word("="), Word("="), Num(n)>>)
                \* " TOTAL NUMBER OF MOS IN VARIATION SPACE= n"
                TotalMosLine(n) ==
                    Ln({"TOTAL NUMBER OF MOS IN VARIATION SPACE"}, <<Word("TOTAL"), Word("SPACE="), Num(n)>>)
                \* "... SPHERICAL HARMONICS KEPT IN THE VARIATION SPACE IS n"
                SphericalLine(n) ==
                    Ln({"SPHERICAL HARMONICS KEPT"}, <<Word("SPHERICAL"), Word("IS"), Num(n)>>)
            IN  { TextLine, BlankLine, FinalLine(1), FinalMethodLine(2), FinalNoIs,
                  OpttolLine(1), OpttolCard(2), OpttolCard(0), FinalOpttol(1, 2),
                  MaxGradLine(2, 1), NatomLine(1), NatomLine(2), NatomMaxGrad(2),
                  NbasisLine(2), SphericalLine(1), TotalMosLine(1) }
        )
      [] kind = "geoopt" ->
        (
            LET EquilibriumLine == Ln({"EQUILIBRIUM GEOMETRY LOCATED"}, <<Word("*****"), Word("EQUILIBRIUM")>>)
                \* a row whose atomic-number column is not a number
                BadCoordRow == Ln({}, <<Word("C"), Word("?")>>)
            IN  { BlankLine, AtomicCoordsLine, StdCoordsLine, EquilibriumLine,
                  CoordRow(6, 1), BadCoordRow, NatomLine(1), NatomLine(2) }
        )
      [] kind = "cc" ->
        (
            LET CcsdNoValue == Ln({"CCSD    ENERGY:"}, <<Word("CCSD"), Word("ENERGY:")>>)
                CcdLine(v) == Ln({"CCD ENERGY:"}, <<Word("CCD"), Word("ENERGY:"), Num(v)>>)
                MbptLine(v) == Ln({"MBPT(2) ENERGY:"}, <<Word("MBPT(2)"), Word("ENERGY:"), Num(v)>>)
            IN  { TextLine, CcsdLine(1), CcsdTLine(2), CcsdPTLine(3), CcsdNoValue,
                  CcdLine(4), MbptLine(5) }
        )
      [] kind = "scf" ->
        (
            LET \* "          -------------------\n          RHF SCF CALCULATION"
                ScfCalculationLine == Ln({"SCF CALCULATION"}, <<Word("RHF"), Word("SCF"), Word("CALCULATION")>>)
                \* "     DENSITY CONV=  1.00E-05" or "     DENSITY MATRIX CONV=  2.00E-05  DFT ..."
                DensityConvLine(v) == Ln({"DENSITY CONV="}, <<Word("DENSITY"), Word("CONV="), Num(v)>>)
                DensityMatrixConvLine(v) ==
                    Ln({"DENSITY MATRIX CONV="}, <<Word("DENSITY"), Word("MATRIX"), Word("CONV="), Num(v), Word("DFT")>>)
                \* " ITER EX DEM     TOTAL ENERGY        E CHANGE  DENSITY CHANGE    DIIS ERROR"
                IterExLine == Ln({"ITER EX"}, <<Word("ITER"), Word("EX"), Word("DEM")>>)
                \* "   1  0  0      -37.0      -37.0   0.5   0.3": line[0:4] is an integer
                ScfRow(d) == Ln({"int(line[0:4])"}, <<Num(1), Num(0), Num(0), Num(37), Num(37), Num(d), Num(0)>>)
                \* a row that starts with an integer and has fewer than six columns
                ScfShortRow == Ln({"int(line[0:4])"}, <<Num(1), Word("CONVERGED")>>)
            IN  { TextLine, BlankLine, ScfCalculationLine, DensityConvLine(1),
                  DensityMatrixConvLine(2), IterExLine, ScfRow(3), ScfRow(4), ScfShortRow }
        )
      [] kind = "overlap" ->
        (
            LET OverlapMatrixLine == Ln({"OVERLAP MATRIX"}, <<Word("OVERLAP"), Word("MATRIX")>>)
                \* "    1  C  1  S    v  v+1 ...": four label columns, then n values
                OverlapRowLine(n, v) ==
                    Ln({}, <<Num(1), Word("C"), Num(1), Word("S")>> \o [k \in 1..n |-> Num(v + k - 1)])
                \* a row with a column that is not a number
                OverlapBadRow == Ln({}, <<Num(1), Word("C"), Num(1), Word("S"), Num(1), Word("*****")>>)
            IN  { TextLine, NbasisLine(2), NbasisLine(6), OverlapMatrixLine,
                  OverlapRowLine(1, 1), OverlapRowLine(5, 4), OverlapBadRow }
        )
      [] kind = "mp" ->
        (
            LET \* " RESULTS OF MOLLER-PLESSET 2ND ORDER CORRECTION ARE"
                MpResultsLine(n) ==
                    Ln({"RESULTS OF MOLLER-PLESSET", DigitAt27(n)},
                       <<Word("RESULTS"), Word("OF"), Word("MOLLER-PLESSET")>>)
                \* the trigger text at another column: line[27:28] is not a digit
                MpResultsShifted ==
                    Ln({"RESULTS OF MOLLER-PLESSET"}, <<Word("RESULTS"), Word("OF"), Word("MOLLER-PLESSET")>>)
                MpDoneLine(n) == Ln({DoneWith(n)}, <<Word("....."), Word("DONE"), Word("WITH")>>)
                \* "       E(MP2)=      -286.7247480864"
                Mp2Row(v) == Ln({}, <<Word("E(MP2)="), Num(v)>>)
                \* "       E(MP2) =      -286.7247480864" and the higher orders
                MpRow(name, v) == Ln({}, <<Word(name), Word("="), Num(v)>>)
                \* "       E(MP2)=" with the value missing
                Mp2NoValue == Ln({}, <<Word("E(MP2)=")>>)
                \* " CHARGE OF MOLECULE                          =    0"
                ChargeLine(c) ==
                    Ln({"CHARGE OF MOLECULE"}, <<Word("CHARGE"), Word("OF"), Word("MOLECULE"), Word("="), Num(c)>>)
                \* " SPIN MULTIPLICITY                           =    1"
                MultLine(n) == Ln({}, <<Word("SPIN"), Word("MULTIPLICITY"), Word("="), Num(n)>>)
                \* "        MBPT(2) ENERGY:     -1.23   CORR.E= ..."
                Mbpt2Line(v) == Ln({"MBPT(2) ENERGY:"}, <<Word("MBPT(2)"), Word("ENERGY:"), Num(v)>>)
            IN  { TextLine, BlankLine, MpResultsLine(2), MpResultsLine(3), MpResultsShifted,
                  MpDoneLine(2), MpDoneLine(3), Mp2Row(1), MpRow("E(MP2)", 2), MpRow("E(MP3)", 3),
                  MpRow("E(MP4-SDQ)", 4), Mp2NoValue, ChargeLine(0), MultLine(1), Mbpt2Line(5),
                  NatomLine(2) }
        )
      [] kind = "cis" ->
        (
            LET \* "   CI-SINGLES EXCITATION ENERGIES"
                ExcitationEnergiesLine ==
                    Ln({"EXCITATION ENERGIES"}, <<Word("CI-SINGLES"), Word("EXCITATION"), Word("ENERGIES")>>)
                \* " 1A''   0.1677341781   4.5643   105.2548   36813.40   271.64"
                EtRow(v) == Ln({}, <<Word("1A''"), Num(v), Num(4), Num(105)>>)
                \* a row whose hartree column is not a number
                EtBadRow == Ln({}, <<Word("1A''"), Word("*****")>>)
            IN  { TextLine, BlankLine, ExcitationEnergiesLine, EtRow(1), EtRow(2), EtBadRow }
        )
      [] kind = "ecp" ->
        (
            LET EcpPotentialsLine == Ln({"ECP POTENTIALS"}, <<Word("ECP"), Word("POTENTIALS")>>)
                \* " PARAMETERS FOR "SBKJC   " ON ATOM  a WITH ZCORE  z AND LMAX  l ARE"
                \* tokens: PARAMETERS, header[34:40], header[50:55], header[63:67]
                ParametersZcore(a, z) ==
                    Ln({"WITH ZCORE"}, <<Word("PARAMETERS"), Num(a), Num(z), Num(1)>>)
                \* " PARAMETERS FOR "SBKJC   " ON ATOM  a ARE THE SAME AS ATOM  c"
                \* tokens: PARAMETERS, header[34:40], header[60:]
                ParametersSameAs(a, c) ==
                    Ln({"ARE THE SAME AS"}, <<Word("PARAMETERS"), Num(a), Num(c)>>)
                \* a PARAMETERS line whose atom number field is not a number
                ParametersBad == Ln({"WITH ZCORE"}, <<Word("PARAMETERS"), Word("**"), Num(10), Num(1)>>)
                \* PARAMETERS lines whose core-electron count or referenced atom is not a number
                ParametersBadZcore ==
                    Ln({"WITH ZCORE"}, <<Word("PARAMETERS"), Num(1), Word("**"), Num(1)>>)
                ParametersBadCopy == Ln({"ARE THE SAME AS"}, <<Word("PARAMETERS"), Num(2), Word("**")>>)
            IN  { TextLine, BlankLine, NatomLine(2), EcpPotentialsLine, ParametersZcore(1, 10),
                  ParametersZcore(3, 28), ParametersSameAs(2, 1), ParametersBad,
                  ParametersBadZcore, ParametersBadCopy }
        )
      [] kind = "homos" ->
        (
            LET \* " NUMBER OF OCCUPIED ORBITALS (ALPHA)          =    n"
                OccupiedLine(n) ==
                    Ln({"NUMBER OF OCCUPIED ORBITALS"},
                       <<Word("NUMBER"), Word("OCCUPIED"), Word("ORBITALS"), Word("="), Num(n)>>)
                \* the same text with nothing after the equals sign
                OccupiedNoValue ==
                    Ln({"NUMBER OF OCCUPIED ORBITALS"},
                       <<Word("NUMBER"), Word("OCCUPIED"), Word("ORBITALS"), Word("=")>>)
                \* "   SYMMETRIES FOR INITIAL GUESS ORBITALS FOLLOW.   BOTH SET(S)."
                SymmetriesLine(sets) ==
                    Ln({"SYMMETRIES FOR INITIAL GUESS ORBITALS FOLLOW"} \cup sets,
                       <<Word("SYMMETRIES"), Word("FOLLOW.")>>)
            IN  { TextLine, BlankLine, OccupiedLine(5), OccupiedLine(4), OccupiedNoValue,
                  SymmetriesLine({"BOTH SET(S)"}), SymmetriesLine({}) }
        )

LogKinds ==
    { "dispatch", "geoopt", "cc", "scf", "overlap", "freq", "mp", "cis", "ecp", "basis",
      "exc", "homos", "eigen" }

\* The layout of a log of kind "freq": one ATOMIC COORDINATES block, then
\* vibrational-analysis blocks as the program prints them (the comment of
\* lines 321-365).  FreqLayout is the set of lines that can stand at the
\* place where the parse obtains its next line.  The blocks are well formed:
\* every row of a block has the same number of columns, and either every
\* group of columns of a block has a RAMAN INTENSITY row or none has; a block
\* may break off at a line of text where the intensities end.
FreqLayout ==
    LET NormalCoordinateLine ==
            Ln({"NORMAL COORDINATE ANALYSIS"}, <<Word("NORMAL"), Word("COORDINATE"), Word("ANALYSIS")>>)
        \* " MODES a TO b ARE TAKEN AS ROTATIONS AND TRANSLATIONS."
        ModesLine(a, b) == Ln({"MODES"}, <<Word("MODES"), Num(a), Word("TO"), Num(b), Word("ARE")>>)
        \* "     * THIS IS NOT A STATIONARY POINT ON THE MOLECULAR PES *"
        NotStationaryLine ==
            Ln({"THIS IS NOT A STATIONARY POINT"}, <<Word("*"), Word("THIS"), Word("IS"), Word("NOT")>>)
        \* "                          1           2"
        FreqNoLine == Ln({}, <<Num(1), Num(2)>>)
        \* "       FREQUENCY:        a        b" and "       FREQUENCY:    a I     b"
        FrequencyRow(a, b) == Ln({}, <<Word("FREQUENCY:"), Num(a), Num(b)>>)
        ImaginaryFrequencyRow(a, b) == Ln({}, <<Word("FREQUENCY:"), Num(a), Word("I"), Num(b)>>)
        ReducedMassRow == Ln({"REDUCED"}, <<Word("REDUCED"), Word("MASS:"), Num(3), Num(3)>>)
        IrIntensityRow(a, b) == Ln({}, <<Word("IR"), Word("INTENSITY:"), Num(a), Num(b)>>)
        RamanIntensityRow(a, b) == Ln({"RAMAN"}, <<Word("RAMAN"), Word("INTENSITY:"), Num(a), Num(b)>>)
        DepolarizationRow == Ln({}, <<Word("DEPOLARIZATION:"), Num(0), Num(0)>>)
        \* "  1   CARBON       X  a  b": the label fills the first 21 columns
        DisplacementRow(a, b) == Ln({"label in line[0:21]"}, <<Word("X"), Num(a), Num(b)>>)
        \* " REFERENCE ON SAYVETZ CONDITIONS ..."
        SayvetzLine == Ln({"SAYVETZ"}, <<Word("REFERENCE"), Word("ON"), Word("SAYVETZ")>>)
    IN  CASE pc = "driver" ->
                IF "atomnos" \in has THEN { NormalCoordinateLine }
                ELSE { AtomicCoordsLine, NormalCoordinateLine }
          [] pc = "ATOMIC COORDINATES" -> { TextLine }
          [] pc = "atomic coordinates: first row" -> { CoordRow(6, 1), BlankLine }
          [] pc = "atomic coordinates: while" -> { BlankLine }
          [] pc = "vib: modes" ->
                { ModesLine(1, 1), ModesLine(1, 2) }
                    \cup (IF loc.warning THEN {} ELSE { NotStationaryLine })
          [] pc = "vib: modes line" -> { BlankLine }
          [] pc = "vib: frequencies" -> { TextLine }
          [] pc = "vib: until blank" ->
                IF line # loc.blank THEN { BlankLine }
                ELSE IF loc.warning THEN { NotStationaryLine }
                ELSE { FreqNoLine }
          [] pc = "vib: group" -> { FrequencyRow(5, 6), ImaginaryFrequencyRow(7, 8) }
          [] pc = "vib: ir" -> { ReducedMassRow, IrIntensityRow(1, 2) }
          [] pc = "vib: ir after reduced mass" -> { IrIntensityRow(1, 2) }
          [] pc = "vib: raman" ->
                IF Len(self.vibfreqs) <= 2 THEN { RamanIntensityRow(3, 4), BlankLine, TextLine }
                ELSE IF gh.vibraman THEN { RamanIntensityRow(3, 4) }
                ELSE { BlankLine }
          [] pc = "vib: depolarization" -> { DepolarizationRow }
          [] pc = "vib: after depolarization" -> { BlankLine, TextLine }
          [] pc = "vib: displacements" -> { DisplacementRow(1, 2) }
          [] pc = "vib: sayvetz" -> { TextLine }
          [] pc = "vib: blank" -> { BlankLine }
          [] pc = "vib: freqNo" -> { FreqNoLine, SayvetzLine }
          [] OTHER -> {}

VibPlaces ==
    { "vib: modes", "vib: modes line", "vib: frequencies", "vib: until blank",
      "vib: group", "vib: ir", "vib: ir after reduced mass", "vib: raman",
      "vib: depolarization", "vib: after depolarization", "vib: displacements",
      "vib: sayvetz", "vib: blank", "vib: freqNo" }

\* the lines that can come next in a log of this kind
\* The lines a log with a basis-set block offers at the place the parse is
\* at: the block is laid out as GAMESS prints it (header, atom name, shells of
\* one or two primitive rows separated by empty lines, TOTAL NUMBER at the
\* end); the first shell index of an atom is the next free one or three more;
\* a row may carry a label that is no shell type, and an empty line may stand
\* where a row or an atom name is due.
BasisLayout ==
    LET AtomicBasisSetLine ==
            Ln({"ATOMIC BASIS SET"}, <<Word("ATOMIC"), Word("BASIS"), Word("SET")>>)
        \* "  SHELL TYPE  PRIMITIVE        EXPONENT          CONTRACTION COEFFICIENT(S)"
        ShellHeaderLine == Ln({"SHELL"}, <<Word("SHELL"), Word("TYPE"), Word("PRIMITIVE")>>)
        \* " C         "
        AtomNameLine == Ln({}, <<Word("C")>>)
        \* " TOTAL NUMBER OF BASIS SET SHELLS             =   10"
        TotalNumberLine ==
            Ln({"TOTAL NUMBER"}, <<Word("TOTAL"), Word("NUMBER"), Word("OF"), Word("SHELLS"), Word("="), Num(4)>>)
        \* "      1   S       1            71.6168370    2.707814416331"
        \* "      2   L       4             2.9412494   -0.160017190825    0.856044577535"
        ShellRow(n, sym, p) ==
            Ln({}, <<Num(n), Word(sym), Num(p), Num(10 * n + p), Num(p)>>
                   \o (IF sym = "L" THEN <<Num(p + 1)>> ELSE <<>>))
        \* "  1   S    1      71.616837   2.707814 (  0.154329) ": the layout of PC GAMESS
        ShellRowPC(n, sym, p) ==
            Ln({}, <<Num(n), Word(sym), Num(p), Num(10 * n + p), Num(p), Word("("), WordV("num)", p + 2)>>)
        \* a row whose second column is no shell type
        ShellRowBad(n, p) == Ln({}, <<Num(n), Word("X"), Num(p), Num(10 * n + p), Num(p)>>)
        FirstRows(n) == { ShellRow(n, "S", 1), ShellRow(n, "L", 1) }
    IN  CASE pc = "driver" ->
                IF "gbasis" \in has THEN {TextLine} ELSE {AtomicBasisSetLine}
          [] pc = "ATOMIC BASIS SET" -> {TextLine, ShellHeaderLine}
          [] pc = "basis: find shell" ->
                IF "SHELL" \in line.m THEN {BlankLine} ELSE {ShellHeaderLine}
          [] pc = "basis: atom name" -> {AtomNameLine}
          [] pc = "basis: atom" -> {BlankLine}
          [] pc = "basis: first row" ->
                FirstRows(loc.shellcounter) \cup FirstRows(loc.shellcounter + 3)
                    \cup {BlankLine}
          [] pc = "basis: rows" /\ Strip(line) ->
                {BlankLine} \cup
                (IF line.t[3] = Num(1) /\ line.t[2].k = "S"
                 THEN { ShellRow(line.t[1].v, "S", 2), ShellRowPC(line.t[1].v, "S", 2),
                        ShellRowBad(line.t[1].v, 2) }
                 ELSE {})
          [] pc = "basis: rows" /\ ~Strip(line) ->
                {AtomNameLine, TotalNumberLine} \cup
                (IF loc.shellsize < 3 THEN FirstRows(loc.shellno + loc.shellsize) ELSE {}) \cup
                (IF loc.shellsize = 1 THEN {BlankLine} ELSE {})
          [] OTHER -> {TextLine}

\* The lines a CIS log offers at the place the parse is at: the marker lines
\* of the two Hamiltonian types and EXCITED STATE blocks in any order; a block
\* has five lines of text, up to two rows and a line of dashes; a row may be
\* labelled ALPHA or BETA, and an empty line may stand where the dashes are due.
ExcLayout ==
    LET \* "        RESULTS FROM SPIN-ADAPTED ANTISYMMETRIZED PRODUCT (SAPS)"
        SapsLine == Ln({"SAPS"}, <<Word("RESULTS"), Word("FROM"), Word("(SAPS)")>>)
        \* "        RESULTS FROM DETERMINANT BASED ATOMIC ORBITAL CI-SINGLES"
        DetsLine == Ln({"DETS"}, <<Word("RESULTS"), Word("FROM"), Word("CI-SINGLES")>>)
        \* " EXCITED STATE   1  ENERGY=  -76.12  S =  0.0  SPACE SYM =   A"
        ExcitedStateLine(spin) ==
            Ln({"EXCITED STATE"},
               <<Word("EXCITED"), Word("STATE"), Num(1), Word("ENERGY="), Num(76),
                 Word("S"), Word("="), Num(spin), Word("SPACE"), Word("SYM"), Word("="), Word("A")>>)
        \* "        3        4     0.7"  and  " BETA     3     4     0.7"
        CisRow(from, to, c) == Ln({}, <<Num(from), Num(to), Num(c)>>)
        CisSpinRow(label, from, to, c) == Ln({}, <<Word(label), Num(from), Num(to), Num(c)>>)
        DashesLine == Ln({}, <<Word("-----")>>)
        Rows == { CisRow(3, 4, 7), CisSpinRow("BETA", 2, 5, 9), CisSpinRow("ALPHA", 1, 6, 0) }
    IN  CASE pc = "driver" ->
                { SapsLine, DetsLine, ExcitedStateLine(0), ExcitedStateLine(1),
                  ExcitedStateLine(2) }
          [] pc = "excited state: skip" /\ loc.skipped < 5 -> {TextLine}
          [] pc = "excited state: skip" -> Rows \cup {DashesLine}
          [] pc = "excited state: while" ->
                {DashesLine} \cup
                (IF Len(loc.CIScontribs) < 1 THEN Rows \cup {BlankLine, TextLine} ELSE {})
          [] OTHER -> {TextLine}

\* The lines a log with eigenvector blocks offers at the place the parse is
\* at: the atom and basis-function counts, then blocks laid out as the
\* comment of lines 499-537 shows them, in sections of up to five orbitals,
\* with one channel (END OF after the sections) or two (a line of text and
\* five more lines before the second channel's sections); the first block
\* may stand under either heading; a line giving a
\* reduced number of orbitals may stand before or between the blocks of a log
\* with six basis functions; the last row of the
\* first section may be printed in the form of an F orbital, the first
\* eigenvalue line may hold a token that is no number, a row of a narrow
\* section may hold one coefficient too many, and a line of text may stand
\* where the END OF line of the second channel is due.
EigenLayout ==
    LET \* "          EIGENVECTORS"
        EigenvectorsLine == Ln({"EIGENVECTORS"}, <<Word("EIGENVECTORS")>>)
        \* "          MOLECULAR ORBITALS", the heading other versions of the program print,
        \* and the same heading with the two letters exchanged
        MolecularOrbitalsLine == Ln({"MOLECULAR ORBITALS"}, <<Word("MOLECULAR"), Word("ORBITALS")>>)
        MolecularObritalsLine == Ln({"MOLECULAR OBRITALS"}, <<Word("MOLECULAR"), Word("OBRITALS")>>)
        DashesLine == Ln({}, <<Word("------------")>>)
        EndOfLine == Ln({"END OF"}, <<Word("......"), Word("END"), Word("OF"), Word("RHF")>>)
        \* " TOTAL NUMBER OF MOS IN VARIATION SPACE=    5"
        VariationSpaceLine ==
            Ln({"TOTAL NUMBER OF MOS IN VARIATION SPACE"}, <<Word("TOTAL"), Word("SPACE="), Num(5)>>)
        n == IF self.nmo - loc.base < 5 THEN self.nmo - loc.base ELSE 5
        \* the numbers of one block differ from those of the blocks before it
        block == gh.moblocks * 1000
        NumbersLine == Ln({}, [j \in 1..n |-> Num(loc.base + j)])
        \* "                  -10.0162   -10.0161   -10.0039   -10.0039   -10.0029"
        EnergiesLine == Ln({}, [j \in 1..n |-> Num(loc.base + j - 11 - block)])
        EnergiesBad == Ln({}, [j \in 1..n |-> IF j = 1 THEN Word("*********") ELSE Num(j - 11)])
        \* "                     BU         AG         BU         AG         AG"
        SymsLine == Ln({}, [j \in 1..n |-> Word(<<"BU", "AG", "A''", "A1", "AG">>[j])])
        \* "    1  C  1  S    0.699293   0.699290  -0.027566   0.027799   0.002412"
        CoeffRow(k) ==
            Ln({}, <<Num(loc.i + 1), Word("C"), Num(1), Word("S")>> \o
                   [j \in 1..k |-> Num(block + loc.channel * 100 + (loc.base + j) * 10 + loc.i)])
        \* "   20  C    XXX   0.000000   0.000000   0.000000   0.000000   0.002249"
        CoeffRowF ==
            Ln({}, <<Num(loc.i + 1), Word("C"), Word("XXX")>> \o
                   [j \in 1..n |-> Num(block + loc.channel * 100 + (loc.base + j) * 10 + loc.i)])
        first == loc.base = 0 /\ loc.channel = 0
    IN  CASE pc = "driver" ->
                {EigenvectorsLine} \cup
                (IF gh.moblocks = 0 THEN {MolecularObritalsLine} ELSE {}) \cup
                (IF gh.moblocks = 0 /\ gh.handed # MolecularOrbitalsLine
                 THEN {MolecularOrbitalsLine} ELSE {}) \cup
                (IF "natom" \notin has THEN {NatomLine(1)} ELSE {}) \cup
                (IF "nbasis" \notin has THEN {NbasisLine(1), NbasisLine(6)} ELSE {}) \cup
                (IF self.nbasis # 1 /\ ("nmo" \notin has \/ self.nmo # 5)
                 THEN {VariationSpaceLine} ELSE {})
          [] pc = "EIGENVECTORS" -> {DashesLine}
          [] pc = "mo: header" /\ loc.base < self.nmo ->
                CASE loc.skipped = 0 -> {BlankLine}
                  [] loc.skipped = 1 -> {NumbersLine}
                  [] loc.skipped = 2 -> {EnergiesLine} \cup (IF first THEN {EnergiesBad} ELSE {})
                  [] OTHER -> {SymsLine}
          [] pc = "mo: header" /\ loc.channel = 0 -> {EndOfLine, BlankLine}
          [] pc = "mo: header" -> {EndOfLine, TextLine}
          [] pc = "mo: rows" ->
                {CoeffRow(n)} \cup
                (IF first /\ loc.i > 0 /\ loc.i + 1 = self.nbasis THEN {CoeffRowF} ELSE {}) \cup
                (IF n < 5 /\ loc.i = 0 /\ loc.channel = 0 THEN {CoeffRow(n + 1)} ELSE {})
          [] OTHER -> {TextLine}

Expected ==
    CASE logkind = "freq" -> FreqLayout
      [] logkind = "exc" -> ExcLayout
      [] logkind = "eigen" -> EigenLayout
      [] logkind = "basis" -> BasisLayout
      [] OTHER -> Alphabet(logkind)

\* the outcomes of inputfile.next()
Input ==
    IF nread < MaxLines(logkind) THEN Expected \cup {EOF} ELSE {EOF}

-----------------------------------------------------------------------------
(* State after construction and before_parsing *)

LocInit ==
    [ atomcoords |-> <<>>, atomnos |-> <<>>, nrows |-> 0, ccenergy |-> 0,
      scftarget |-> <<>>,     \* <<v>> once the name scftarget is bound
      values |-> <<>>,
      base |-> 0, i |-> 0, skipped |-> 0,
      warning |-> FALSE, startrot |-> 0, endrot |-> 0,
      blank |-> NoLine, freqNo |-> NoLine,
      j |-> 0, k |-> 0,
      broken |-> <<>>,        \* <<n>> once the name broken is bound, n = len(broken)
      p |-> <<>>, q |-> <<>>,
      mplevel |-> 0,
      header |-> NoLine,
      shellcounter |-> 0, shellno |-> 0, shellgap |-> 0, shellsize |-> 0,
      gbasis |-> <<>>,
      coeff |-> <<>>,         \* a dict: a function on the keys it holds
      sym |-> <<>>,           \* <<s>> once the name sym is bound
      CIScontribs |-> <<>>,
      channel |-> 0,          \* the index of the spin channel an eigenvector section fills
      readatombasis |-> FALSE,
      oldatom |-> 0,
      label |-> <<>>,         \* normalisesym's argument, a string as its characters
      answer |-> <<>> ]       \* and the string it returned

GhInit ==
    [ handed |-> NoLine,      \* the line the driver handed to this extract call
      fired |-> <<>>,         \* the triggers whose bodies ran in this call
      origin |-> <<>>,        \* per element of self.atomcoords: "input" or "std"
      rowcounts |-> {},       \* number of rows of each coordinate block completed
      natoms |-> {},          \* values set by TOTAL NUMBER OF ATOMS lines
      lateinput |-> FALSE,    \* an input-orientation block came after a standard one
      cclines |-> <<>>,       \* the lines the CCSD cascade of this call has seen
      ccbefore |-> 0,         \* len(self.ccenergies) when that cascade began
      eofat |-> "",           \* where the parse was when the stream was found exhausted
      scfbefore |-> 0,        \* len(self.scfvalues) when the current SCF block began
      vibblocks |-> 0,        \* vibrational-analysis blocks completed
      vibmodes |-> 0,         \* frequencies read in the current or last such block
      vibraman |-> FALSE,     \* that block had RAMAN INTENSITY rows
      vibrot |-> <<0, 0>>,    \* its startrot and endrot
      basis |-> <<>>,         \* per atom described in the basis-set block: what was computed
      cisrows |-> <<>>,       \* per row of the current EXCITED STATE block: what was read
      etrows |-> <<>>,        \* the same, per element of self.etsecs
      finals |-> <<>>,        \* the lines the FINAL trigger has run for
      scfrows |-> <<>>,       \* the rows of the current SCF table gone through
      homos |-> <<>>,         \* what has set self.homos, in order: "occupied", "both", "other"
      occupied |-> <<>>,      \* the two lines the last of the "occupied" went through
      mostate |-> "none",     \* the last eigenvector block: "running", "completed"
      moblocks |-> 0,         \* the eigenvector blocks begun
      moshape |-> <<0, 0>>,   \* nmo and nbasis when the last of them made mocoeffs
      ovstart |-> 0,          \* the lines obtained before the last overlap block began
      ovrow |-> NoLine,       \* the last data row that block has obtained
      moafter |-> NoLine,     \* the line that followed its first channel's sections
      molast |-> NoLine,      \* the last line it has obtained
      multline |-> NoLine ]   \* the line CHARGE OF MOLECULE obtained for self.mult

SelfInit ==
    [ firststdorient |-> TRUE,
      geooptfinished |-> FALSE,
      cihamtyp |-> "none",
      geotargets |-> <<>>,
      scfenergies |-> <<>>,
      mpenergies |-> <<>>,
      ccenergies |-> <<>>,
      scftargets |-> <<>>,
      scfvalues |-> <<>>,
      nbasis |-> 0,
      nmo |-> 0,
      aooverlaps |-> <<>>,
      vibfreqs |-> <<>>,
      vibirs |-> <<>>,
      vibdisps |-> <<>>,
      vibramans |-> [array |-> FALSE, v |-> <<>>],
      geovalues |-> <<>>,
      atomcoords |-> <<>>,
      atomnos |-> <<>>,
      natom |-> 0,
      charge |-> 0,
      mult |-> 0,
      etenergies |-> <<>>,
      coreelectrons |-> <<>>,
      gbasis |-> <<>>,
      etsecs |-> <<>>,
      etsyms |-> <<>>,
      homos |-> <<>>,
      moenergies |-> <<>>,
      mosyms |-> <<>>,
      mocoeffs |-> <<>>,      \* per channel a matrix: nmo rows of nbasis entries
      atombasis |-> <<>>,
      aonames |-> <<>> ]

Init ==
    /\ logkind \in LogKinds
    /\ nread = 0
    /\ line = NoLine
    /\ pc = "driver"
    /\ err = "none"
    /\ self = SelfInit
    /\ has = {}
    /\ loc = LocInit
    /\ gh = GhInit

-----------------------------------------------------------------------------
(* Control *)

\* the parse driver: for line in inputfile: self.extract(inputfile, line)
Driver ==
    /\ pc = "driver" /\ err = "none"
    /\ \E l \in Input :
        IF l = EOF
        THEN /\ pc' = "done"
             /\ gh' = [gh EXCEPT !.eofat = "driver"]
             /\ UNCHANGED <<nread, line>>
        ELSE /\ nread' = nread + 1
             /\ pc' = Goto(1, l, self)
             /\ line' = IF pc' = "driver" THEN NoLine ELSE l
             /\ gh' = [gh EXCEPT !.handed = l, !.fired = <<>>, !.cclines = <<>>]
    /\ UNCHANGED <<logkind, err, self, has, loc>>

\* as Resume, were the line a sub-parser ends on dispatched from the first trigger
ResumeFromTop(name, ln, s) ==
    /\ pc' = Goto(1, ln, s)
    /\ line' = IF pc' = "driver" THEN NoLine ELSE ln
    /\ loc' = LocInit

\* trigger name's body is complete with `line` bound to ln and the object s:
\* the statements after it run
Resume(name, ln, s) ==
    /\ pc' = Goto(After(name), ln, s)
    /\ line' = IF pc' = "driver" THEN NoLine ELSE ln
    /\ loc' = LocInit

\* an exception leaves extract and the driver
Raise(e) == err' = e /\ pc' = pc

Fired(name) == [gh EXCEPT !.fired = Append(@, name)]

\* as StopIteration, were the exhausted stream taken for the end of the block
StopIterationReturning(g) ==
    /\ err' = err
    /\ pc' = "done"
    /\ gh' = [g EXCEPT !.eofat = pc]

\* inputfile.next() finds the stream exhausted: StopIteration leaves extract
StopIteration(g) ==
    /\ err' = "StopIteration"
    /\ pc' = pc
    /\ gh' = [g EXCEPT !.eofat = pc]

-----------------------------------------------------------------------------
(* Triggers that read no further line *)

\* float(x.split('=')[1]) or float(temp[i + 2]) of the last token containing OPTTOL
OpttolOf(t) ==
    LET idx == { i \in DOMAIN t : t[i].k \in {"OPTTOL", "OPTTOL="} }
        tokval(i) ==
            IF t[i].k = "OPTTOL="
            THEN [e |-> "none", v |-> t[i].v]
            ELSE IF i + 2 > Len(t) THEN [e |-> "IndexError", v |-> 0]
            ELSE IF ~IsNum(t[i + 2]) THEN [e |-> "ValueError", v |-> 0]
            ELSE [e |-> "none", v |-> t[i + 2].v]
        bad == { i \in idx : tokval(i).e # "none" \/ tokval(i).v = 0 }
    IN IF bad # {}
       THEN LET i == CHOOSE i \in bad : \A j \in bad : i <= j
            IN IF tokval(i).e # "none" THEN tokval(i)
               ELSE [e |-> "ZeroDivisionError", v |-> 0]
       ELSE tokval(CHOOSE i \in idx : \A j \in idx : i >= j)

Opttol ==
    /\ pc = "OPTTOL" /\ err = "none"
    /\ IF "geotargets" \in has
       THEN /\ Resume("OPTTOL", line, self)
            /\ UNCHANGED <<self, has, err>>
       ELSE LET r == OpttolOf(line.t)
            IN IF r.e # "none"
               THEN /\ Raise(r.e)
                    /\ UNCHANGED <<self, has, line, loc>>
               ELSE LET s == [self EXCEPT !.geotargets =
                                 << [num |-> r.v, den |-> 1], [num |-> 3, den |-> r.v] >>]
                    IN /\ self' = s
                       /\ has' = has \cup {"geotargets"}
                       /\ Resume("OPTTOL", line, s)
                       /\ UNCHANGED err
    /\ gh' = Fired("OPTTOL")
    /\ UNCHANGED <<logkind, nread>>

\* float(temp[temp.index("IS") + 1])
\* as FinalOf, were the energy taken from a fixed column
FinalOfFourthToken(t) == FloatAt(t, 4)

FinalOf(t) ==
    LET i == IndexOf(t, "IS")
    IN IF i = 0 THEN [e |-> "ValueError", v |-> 0]
       ELSE IF i + 1 > Len(t) THEN [e |-> "IndexError", v |-> 0]
       ELSE IF ~IsNum(t[i + 1]) THEN [e |-> "ValueError", v |-> 0]
       ELSE [e |-> "none", v |-> t[i + 1].v]

Final ==
    /\ pc = "FINAL" /\ err = "none"
    /\ has' = has \cup {"scfenergies"}
    /\ LET r == FinalOf(line.t)
       IN IF r.e # "none"
          THEN /\ Raise(r.e)
               /\ UNCHANGED <<self, line, loc>>
          ELSE LET s == [self EXCEPT !.scfenergies =
                            Append(@, convertor(r.v, "hartree", "eV"))]
               IN /\ self' = s
                  /\ Resume("FINAL", line, s)
                  /\ UNCHANGED err
    /\ gh' = [Fired("FINAL") EXCEPT !.finals = Append(@, line)]
    /\ UNCHANGED <<logkind, nread>>

MaximumGradient ==
    /\ pc = "MAXIMUM GRADIENT" /\ err = "none"
    /\ has' = has \cup {"geovalues"}
    /\ LET t == line.t
       IN IF Len(t) < 8
          THEN /\ Raise("IndexError")
               /\ UNCHANGED <<self, line, loc>>
          ELSE IF ~IsNum(t[4]) \/ ~IsNum(t[8])
          THEN /\ Raise("ValueError")
               /\ UNCHANGED <<self, line, loc>>
          ELSE LET s == [self EXCEPT !.geovalues = Append(@, <<t[4].v, t[8].v>>)]
               IN /\ self' = s
                  /\ Resume("MAXIMUM GRADIENT", line, s)
                  /\ UNCHANGED err
    /\ gh' = Fired("MAXIMUM GRADIENT")
    /\ UNCHANGED <<logkind, nread>>

EquilibriumGeometryLocated ==
    /\ pc = "EQUILIBRIUM GEOMETRY LOCATED" /\ err = "none"
    /\ LET s == [self EXCEPT !.geooptfinished = TRUE]
       IN /\ self' = s
          /\ Resume("EQUILIBRIUM GEOMETRY LOCATED", line, s)
    /\ gh' = Fired("EQUILIBRIUM GEOMETRY LOCATED")
    /\ UNCHANGED <<logkind, nread, err, has>>

\* self.natom = int(line.split()[-1])
TotalNumberOfAtoms ==
    /\ pc = "TOTAL NUMBER OF ATOMS" /\ err = "none"
    /\ IF ~IsNum(Last(line.t))
       THEN /\ Raise("ValueError")
            /\ gh' = Fired("TOTAL NUMBER OF ATOMS")
            /\ UNCHANGED <<self, has, line, loc>>
       ELSE LET s == [self EXCEPT !.natom = Last(line.t).v]
            IN /\ self' = s
               /\ has' = has \cup {"natom"}
               /\ Resume("TOTAL NUMBER OF ATOMS", line, s)
               /\ gh' = [Fired("TOTAL NUMBER OF ATOMS") EXCEPT !.natoms = @ \cup {s.natom}]
               /\ UNCHANGED err
    /\ UNCHANGED <<logkind, nread>>

-----------------------------------------------------------------------------
(* Coupled-cluster and MBPT(2) energies *)

CcdEnergy ==
    /\ pc = "CCD ENERGY:" /\ err = "none"
    /\ has' = has \cup {"ccenergies"}
    /\ LET r == FloatAt(line.t, 3)
       IN IF r.e # "none"
          THEN Raise(r.e) /\ UNCHANGED <<self, line, loc>>
          ELSE LET s == [self EXCEPT !.ccenergies =
                            Append(@, convertor(r.v, "hartree", "eV"))]
               IN /\ self' = s
                  /\ Resume("CCD ENERGY:", line, s)
                  /\ UNCHANGED err
    /\ gh' = Fired("CCD ENERGY:")
    /\ UNCHANGED <<logkind, nread>>

\* self.ccenergies.append(utils.convertor(ccenergy, "hartree", "eV"))
AppendCcenergy(s, ccenergy) ==
    [s EXCEPT !.ccenergies = Append(@, convertor(ccenergy, "hartree", "eV"))]

\* the CCSD line is parsed and the line after it obtained; a CCSD[T] line
\* replaces the running value
CcsdEnergy ==
    /\ pc = "CCSD    ENERGY:" /\ err = "none"
    /\ has' = has \cup {"ccenergies"}
    /\ LET r == FloatAt(line.t, 3)
       IN IF r.e # "none"
          THEN /\ Raise(r.e)
               /\ gh' = Fired("CCSD    ENERGY:")
               /\ UNCHANGED <<self, line, loc, nread>>
          ELSE \E l \in Input :
            IF l = EOF
            THEN /\ StopIteration(Fired("CCSD    ENERGY:"))
                 /\ UNCHANGED <<self, line, loc, nread>>
            ELSE
              /\ nread' = nread + 1
              /\ gh' = [Fired("CCSD    ENERGY:") EXCEPT
                            !.cclines = <<line, l>>,
                            !.ccbefore = Len(self.ccenergies)]
              /\ IF "CCSD[T] ENERGY:" \in l.m
                 THEN LET q == FloatAt(l.t, 3)
                      IN IF q.e # "none"
                         THEN /\ Raise(q.e)
                              /\ line' = l
                              /\ UNCHANGED <<self, loc>>
                         ELSE /\ loc' = [loc EXCEPT !.ccenergy = q.v]
                              /\ line' = l
                              /\ pc' = "ccsd: after CCSD[T]"
                              /\ UNCHANGED <<self, err>>
                 ELSE LET s == AppendCcenergy(self, r.v)
                      IN /\ self' = s
                         /\ Resume("CCSD    ENERGY:", l, s)
                         /\ UNCHANGED err
    /\ UNCHANGED logkind

\* as CcsdPTValue, overlooking the CCSD(T) line
CcsdPTValueIgnored(ccenergy, l) == [e |-> "none", v |-> ccenergy]

\* if line[8:23] == "CCSD(T) ENERGY:": ccenergy = float(line.split()[2])
CcsdPTValue(ccenergy, l) ==
    IF "CCSD(T) ENERGY:" \in l.m THEN FloatAt(l.t, 3)
    ELSE [e |-> "none", v |-> ccenergy]

\* the line after the CCSD[T] line is obtained; a CCSD(T) line replaces the
\* running value, which is then appended
CcsdAfterT ==
    /\ pc = "ccsd: after CCSD[T]" /\ err = "none"
    /\ \E l \in Input :
        IF l = EOF
        THEN StopIteration(gh) /\ UNCHANGED <<self, line, loc, nread>>
        ELSE /\ nread' = nread + 1
             /\ gh' = [gh EXCEPT !.cclines = Append(@, l)]
             /\ LET q == CcsdPTValue(loc.ccenergy, l)
                IN IF q.e # "none"
                   THEN /\ Raise(q.e)
                        /\ line' = l
                        /\ UNCHANGED <<self, loc>>
                   ELSE LET s == AppendCcenergy(self, q.v)
                        IN /\ self' = s
                           /\ Resume("CCSD    ENERGY:", l, s)
                           /\ UNCHANGED err
    /\ UNCHANGED <<logkind, has>>

MbptEnergy ==
    /\ pc = "MBPT(2) ENERGY:" /\ err = "none"
    /\ has' = has \cup {"mpenergies"}
    /\ LET r == FloatAt(line.t, 3)
       IN IF r.e # "none"
          THEN /\ Raise(r.e)
               /\ self' = [self EXCEPT !.mpenergies = Append(@, <<>>)]
               /\ UNCHANGED <<line, loc>>
          ELSE LET s == [self EXCEPT !.mpenergies =
                            Append(@, <<convertor(r.v, "hartree", "eV")>>)]
               IN /\ self' = s
                  /\ Resume("MBPT(2) ENERGY:", line, s)
                  /\ UNCHANGED err
    /\ gh' = Fired("MBPT(2) ENERGY:")
    /\ UNCHANGED <<logkind, nread>>

-----------------------------------------------------------------------------
(* Geometry blocks *)

\* the trigger line and the column header line under it
AtomicCoordinates ==
    /\ pc = "ATOMIC COORDINATES" /\ err = "none"
    /\ has' = IF "atomcoords" \in has THEN has ELSE has \cup {"atomcoords", "atomnos"}
    /\ self' = IF "atomcoords" \in has THEN self
               ELSE [self EXCEPT !.atomcoords = <<>>, !.atomnos = <<>>]
    /\ \E l \in Input :
      LET g == [Fired("ATOMIC COORDINATES") EXCEPT
                  !.origin = IF "atomcoords" \in has THEN @ ELSE <<>>,
                  !.lateinput = @ \/ ~self.firststdorient]
      IN
        IF l = EOF
        THEN StopIteration(g) /\ UNCHANGED <<nread, line, loc>>
        ELSE /\ nread' = nread + 1
             /\ gh' = g
             /\ line' = l
             /\ loc' = [loc EXCEPT !.atomcoords = <<>>, !.atomnos = <<>>, !.nrows = 0]
             /\ pc' = "atomic coordinates: first row"
             /\ UNCHANGED err
    /\ UNCHANGED logkind

\* line = inputfile.next() before the while loop
AtomicCoordinatesFirst ==
    /\ pc = "atomic coordinates: first row" /\ err = "none"
    /\ \E l \in Input :
        IF l = EOF
        THEN StopIteration(gh) /\ UNCHANGED <<nread, line>>
        ELSE /\ nread' = nread + 1
             /\ line' = l
             /\ UNCHANGED gh
             /\ pc' = "atomic coordinates: while"
             /\ UNCHANGED err
    /\ UNCHANGED <<logkind, self, has, loc>>

\* [f(float(x)) for x in temp[2:5]]: the error, if a token is not a number
CoordsError(t) ==
    IF \E i \in 3..5 : i <= Len(t) /\ ~IsNum(t[i]) THEN "ValueError" ELSE "none"

CoordsOf(t) == [ i \in 1..(IF Len(t) >= 5 THEN 3 ELSE IF Len(t) >= 2 THEN Len(t) - 2 ELSE 0)
                    |-> t[i + 2].v ]

\* one pass of the while loop: a row is parsed and the next line obtained
AtomicCoordinatesRow ==
    /\ pc = "atomic coordinates: while" /\ err = "none"
    /\ Strip(line)
    /\ LET t == line.t
       IN IF CoordsError(t) # "none"
          THEN Raise(CoordsError(t)) /\ UNCHANGED <<nread, line, loc, gh>>
          ELSE IF Len(t) < 2
          THEN Raise("IndexError") /\ UNCHANGED <<nread, line, loc, gh>>
          ELSE IF ~IsNum(t[2])
          THEN Raise("ValueError") /\ UNCHANGED <<nread, line, loc, gh>>
          ELSE \E l \in Input :
                IF l = EOF
                THEN StopIteration(gh) /\ UNCHANGED <<nread, line, loc>>
                ELSE /\ nread' = nread + 1
                     /\ UNCHANGED gh
                     /\ line' = l
                     /\ loc' = [loc EXCEPT
                            !.atomcoords = Append(@,
                                [i \in DOMAIN CoordsOf(t) |->
                                    convertor(CoordsOf(t)[i], "bohr", "Angstrom")]),
                            !.atomnos = Append(@, t[2].v),
                            !.nrows = @ + 1]
                     /\ UNCHANGED <<pc, err>>
    /\ UNCHANGED <<logkind, self, has>>

\* as StoreAtomicCoordinates, extending self.atomnos instead of replacing it
StoreAtomicCoordinatesExtending(s, l) ==
    [s EXCEPT !.atomnos = @ \o l.atomnos, !.atomcoords = Append(@, l.atomcoords)]

\* self.atomnos = numpy.array(atomnos, "i"); self.atomcoords.append(atomcoords)
StoreAtomicCoordinates(s, l) ==
    [s EXCEPT !.atomnos = l.atomnos, !.atomcoords = Append(@, l.atomcoords)]

\* the while loop ends at an empty line: the block is stored
AtomicCoordinatesEnd ==
    /\ pc = "atomic coordinates: while" /\ err = "none"
    /\ ~Strip(line)
    /\ LET s == StoreAtomicCoordinates(self, loc)
       IN /\ self' = s
          /\ Resume("ATOMIC COORDINATES", line, s)
    /\ has' = has \cup {"atomnos"}
    /\ gh' = [gh EXCEPT !.origin = Append(@, "input"),
                        !.rowcounts = @ \cup {loc.nrows}]
    /\ UNCHANGED <<logkind, nread, err>>

\* as WipeOnFirstStdOrient, clearing the flag only
WipeOnFirstStdOrientKeeping(s) == [s EXCEPT !.firststdorient = FALSE]

\* if self.firststdorient: self.firststdorient = False; self.atomcoords = []
WipeOnFirstStdOrient(s) ==
    IF s.firststdorient
    THEN [s EXCEPT !.firststdorient = FALSE, !.atomcoords = <<>>]
    ELSE s

\* the trigger line: the first block wipes atomcoords; the line under it
CoordinatesOfAllAtoms ==
    /\ pc = "COORDINATES OF ALL ATOMS ARE" /\ err = "none"
    /\ self' = WipeOnFirstStdOrient(self)
    /\ has' = IF self.firststdorient THEN has \cup {"atomcoords"} ELSE has
    /\ \E l \in Input :
      LET g == [Fired("COORDINATES OF ALL ATOMS ARE") EXCEPT
                  !.origin = IF self'.atomcoords = <<>> THEN <<>> ELSE @]
      IN
        IF l = EOF
        THEN StopIteration(g) /\ UNCHANGED <<nread, line, loc>>
        ELSE /\ nread' = nread + 1
             /\ gh' = g
             /\ line' = l
             /\ loc' = [loc EXCEPT !.atomcoords = <<>>, !.nrows = 0]
             /\ pc' = "coordinates of all atoms: hyphens"
             /\ UNCHANGED err
    /\ UNCHANGED logkind

\* hyphens = inputfile.next()
CoordinatesOfAllAtomsHyphens ==
    /\ pc = "coordinates of all atoms: hyphens" /\ err = "none"
    /\ \E l \in Input :
        IF l = EOF
        THEN StopIteration(gh) /\ UNCHANGED <<nread>>
        ELSE /\ nread' = nread + 1
             /\ UNCHANGED gh
             /\ pc' = "coordinates of all atoms: first row"
             /\ UNCHANGED err
    /\ UNCHANGED <<logkind, line, self, has, loc>>

\* line = inputfile.next() before the while loop
CoordinatesOfAllAtomsFirst ==
    /\ pc = "coordinates of all atoms: first row" /\ err = "none"
    /\ \E l \in Input :
        IF l = EOF
        THEN StopIteration(gh) /\ UNCHANGED <<nread, line>>
        ELSE /\ nread' = nread + 1
             /\ line' = l
             /\ UNCHANGED gh
             /\ pc' = "coordinates of all atoms: while"
             /\ UNCHANGED err
    /\ UNCHANGED <<logkind, self, has, loc>>

\* one pass of the while loop
CoordinatesOfAllAtomsRow ==
    /\ pc = "coordinates of all atoms: while" /\ err = "none"
    /\ Strip(line)
    /\ LET t == line.t
       IN IF CoordsError(t) # "none"
          THEN Raise(CoordsError(t)) /\ UNCHANGED <<nread, line, loc, gh>>
          ELSE \E l \in Input :
                IF l = EOF
                THEN StopIteration(gh) /\ UNCHANGED <<nread, line, loc>>
                ELSE /\ nread' = nread + 1
                     /\ UNCHANGED gh
                     /\ line' = l
                     /\ loc' = [loc EXCEPT !.atomcoords = Append(@, CoordsOf(t)),
                                           !.nrows = @ + 1]
                     /\ UNCHANGED <<pc, err>>
    /\ UNCHANGED <<logkind, self, has>>

\* the while loop ends at an empty line: the geometry is appended
CoordinatesOfAllAtomsEnd ==
    /\ pc = "coordinates of all atoms: while" /\ err = "none"
    /\ ~Strip(line)
    /\ LET s == [self EXCEPT !.atomcoords = Append(@, loc.atomcoords)]
       IN /\ self' = s
          /\ Resume("COORDINATES OF ALL ATOMS ARE", line, s)
    /\ gh' = [gh EXCEPT !.origin = Append(@, "std"),
                        !.rowcounts = @ \cup {loc.nrows}]
    /\ UNCHANGED <<logkind, nread, err, has>>

-----------------------------------------------------------------------------
(* SCF convergence block *)

\* the trigger line; line = inputfile.next()
ScfCalculation ==
    /\ pc = "SCF CALCULATION" /\ err = "none"
    /\ \E l \in Input :
      LET g == [Fired("SCF CALCULATION") EXCEPT !.scfbefore = Len(self.scfvalues)]
      IN IF l = EOF
         THEN StopIteration(g) /\ UNCHANGED <<nread, line>>
         ELSE /\ nread' = nread + 1
              /\ line' = l
              /\ gh' = g
              /\ pc' = "scf: header"
              /\ UNCHANGED err
    /\ UNCHANGED <<logkind, self, has, loc>>

\* scftarget = float(line[index:].split()[0]) for the convergence phrasing found
ScfTargetOf(ln) ==
    IF "DENSITY CONV=" \in ln.m \/ "DENSITY MATRIX CONV=" \in ln.m
    THEN FloatAt(ln.t, IndexOf(ln.t, "CONV=") + 1)
    ELSE [e |-> "skip", v |-> 0]

\* one pass of while line.find("ITER EX") < 0
ScfHeader ==
    /\ pc = "scf: header" /\ err = "none"
    /\ "ITER EX" \notin line.m
    /\ LET r == ScfTargetOf(line)
       IN IF r.e \notin {"none", "skip"}
          THEN Raise(r.e) /\ UNCHANGED <<nread, line, loc, gh>>
          ELSE \E l \in Input :
                IF l = EOF
                THEN StopIteration(gh) /\ UNCHANGED <<nread, line, loc>>
                ELSE /\ nread' = nread + 1
                     /\ line' = l
                     /\ loc' = IF r.e = "none" THEN [loc EXCEPT !.scftarget = <<r.v>>] ELSE loc
                     /\ UNCHANGED <<pc, err, gh>>
    /\ UNCHANGED <<logkind, self, has>>

\* the ITER EX line: the target is appended and the first table line obtained
ScfIterEx ==
    /\ pc = "scf: header" /\ err = "none"
    /\ "ITER EX" \in line.m
    /\ IF loc.scftarget = <<>>
       THEN /\ Raise("NameError")
            /\ has' = has \cup {"scftargets"}
            /\ UNCHANGED <<nread, line, loc, self, gh>>
       ELSE \E l \in Input :
            /\ self' = [self EXCEPT !.scftargets = Append(@, loc.scftarget)]
            /\ has' = has \cup {"scftargets", "scfvalues"}
            /\ IF l = EOF
               THEN StopIteration(gh) /\ UNCHANGED <<nread, line, loc>>
               ELSE /\ nread' = nread + 1
                    /\ line' = l
                    /\ loc' = [loc EXCEPT !.values = <<>>]
                    /\ pc' = "scf: table"
                    /\ gh' = [gh EXCEPT !.scfrows = <<>>]
                    /\ UNCHANGED err
    /\ UNCHANGED logkind

\* as ScfValueOf, were a row without a sixth column skipped as well
ScfValueOfLenient(ln) ==
    IF "int(line[0:4])" \in ln.m /\ Len(ln.t) >= 6 THEN FloatAt(ln.t, 6)
    ELSE [e |-> "skip", v |-> 0]

\* try: int(line[0:4]) ... else: values.append([float(line.split()[5])])
ScfValueOf(ln) ==
    IF "int(line[0:4])" \in ln.m THEN FloatAt(ln.t, 6)
    ELSE [e |-> "skip", v |-> 0]

\* as ScfTableRow, storing the values read so far when the stream ends
ScfTableRowStoringPartial ==
    /\ pc = "scf: table" /\ err = "none"
    /\ Strip(line)
    /\ LET r == ScfValueOf(line)
       IN IF r.e \notin {"none", "skip"}
          THEN Raise(r.e) /\ UNCHANGED <<nread, line, loc, gh, self>>
          ELSE \E l \in Input :
                IF l = EOF
                THEN /\ StopIteration(gh)
                     /\ self' = [self EXCEPT !.scfvalues = Append(@, loc.values)]
                     /\ UNCHANGED <<nread, line, loc>>
                ELSE /\ nread' = nread + 1
                     /\ line' = l
                     /\ loc' = IF r.e = "none"
                               THEN [loc EXCEPT !.values = Append(@, <<r.v>>)]
                               ELSE loc
                     /\ gh' = [gh EXCEPT !.scfrows = Append(@, line)]
                     /\ UNCHANGED <<pc, err, self>>
    /\ UNCHANGED <<logkind, has>>

\* one pass of the iteration table's while line.strip()
ScfTableRow ==
    /\ pc = "scf: table" /\ err = "none"
    /\ Strip(line)
    /\ LET r == ScfValueOf(line)
       IN IF r.e \notin {"none", "skip"}
          THEN Raise(r.e) /\ UNCHANGED <<nread, line, loc, gh>>
          ELSE \E l \in Input :
                IF l = EOF
                THEN StopIteration(gh) /\ UNCHANGED <<nread, line, loc>>
                ELSE /\ nread' = nread + 1
                     /\ line' = l
                     /\ loc' = IF r.e = "none"
                               THEN [loc EXCEPT !.values = Append(@, <<r.v>>)]
                               ELSE loc
                     /\ gh' = [gh EXCEPT !.scfrows = Append(@, line)]
                     /\ UNCHANGED <<pc, err>>
    /\ UNCHANGED <<logkind, self, has>>

\* as ScfTableEnd, were a table without numbered rows given no entry
ScfTableEndOfNonEmpty ==
    /\ pc = "scf: table" /\ err = "none"
    /\ ~Strip(line)
    /\ LET s == IF loc.values = <<>> THEN self
                ELSE [self EXCEPT !.scfvalues = Append(@, loc.values)]
       IN /\ self' = s
          /\ Resume("SCF CALCULATION", line, s)
    /\ UNCHANGED <<logkind, nread, err, has, gh>>

\* the table ends at an empty line: self.scfvalues.append(values)
ScfTableEnd ==
    /\ pc = "scf: table" /\ err = "none"
    /\ ~Strip(line)
    /\ LET s == [self EXCEPT !.scfvalues = Append(@, loc.values)]
       IN /\ self' = s
          /\ Resume("SCF CALCULATION", line, s)
    /\ UNCHANGED <<logkind, nread, err, has, gh>>

-----------------------------------------------------------------------------
(* Basis-function counts and the overlap matrix: one if / elif statement *)

\* int(line.strip().split()[-1])
IntLast(ln) ==
    IF ln.t = <<>> THEN [e |-> "IndexError", v |-> 0]
    ELSE FloatAt(ln.t, Len(ln.t))

NumberOfBasisFunctions ==
    /\ pc = "NUMBER OF BASIS FUNCTIONS" /\ err = "none"
    /\ LET r == IntLast(line)
       IN IF r.e # "none"
          THEN Raise(r.e) /\ UNCHANGED <<self, has, line, loc>>
          ELSE LET s == [self EXCEPT !.nbasis = r.v]
               IN /\ self' = s
                  /\ has' = has \cup {"nbasis"}
                  /\ Resume("NUMBER OF BASIS FUNCTIONS", line, s)
                  /\ UNCHANGED err
    /\ gh' = Fired("NUMBER OF BASIS FUNCTIONS")
    /\ UNCHANGED <<logkind, nread>>

SphericalHarmonicsKept ==
    /\ pc = "SPHERICAL HARMONICS KEPT" /\ err = "none"
    /\ LET r == IntLast(line)
       IN IF r.e # "none"
          THEN Raise(r.e) /\ UNCHANGED <<self, has, line, loc>>
          ELSE LET s == [self EXCEPT !.nmo = r.v]
               IN /\ self' = s
                  /\ has' = has \cup {"nmo"}
                  /\ Resume("SPHERICAL HARMONICS KEPT", line, s)
                  /\ UNCHANGED err
    /\ gh' = Fired("SPHERICAL HARMONICS KEPT")
    /\ UNCHANGED <<logkind, nread>>

TotalNumberOfMos ==
    /\ pc = "TOTAL NUMBER OF MOS IN VARIATION SPACE" /\ err = "none"
    /\ LET r == IntLast(line)
       IN IF r.e # "none"
          THEN Raise(r.e) /\ UNCHANGED <<self, has, line, loc>>
          ELSE LET s == [self EXCEPT !.nmo = r.v]
               IN /\ self' = s
                  /\ has' = has \cup {"nmo"}
                  /\ Resume("TOTAL NUMBER OF MOS IN VARIATION SPACE", line, s)
                  /\ UNCHANGED err
    /\ gh' = Fired("TOTAL NUMBER OF MOS IN VARIATION SPACE")
    /\ UNCHANGED <<logkind, nread>>

\* numpy.zeros((n, n), "d"), indexed from 0
Zeros(n) == [r \in 0..(n - 1) |-> [c \in 0..(n - 1) |-> 0]]
Dim(mat) == Cardinality(DOMAIN mat)

\* the trigger line: the matrix is created on the first block; base = 0
OverlapMatrix ==
    /\ pc = "OVERLAP MATRIX" /\ err = "none"
    /\ gh' = [Fired("OVERLAP MATRIX") EXCEPT !.ovstart = nread, !.ovrow = NoLine]
    /\ IF "nbasis" \notin has
       THEN Raise("AttributeError") /\ UNCHANGED <<self, has, line, loc>>
       ELSE LET s == IF "aooverlaps" \in has THEN self
                     ELSE [self EXCEPT !.aooverlaps = Zeros(self.nbasis)]
            IN /\ self' = s
               /\ has' = has \cup {"aooverlaps"}
               /\ UNCHANGED err
               /\ IF 0 < self.nbasis
                  THEN /\ pc' = "overlap: band header"
                       /\ loc' = [loc EXCEPT !.base = 0, !.i = 0, !.skipped = 0]
                       /\ UNCHANGED line
                  ELSE Resume("OVERLAP MATRIX", line, s)
    /\ UNCHANGED <<logkind, nread>>

\* blank = inputfile.next(); line = inputfile.next(); blank = inputfile.next()
OverlapBandHeader ==
    /\ pc = "overlap: band header" /\ err = "none"
    /\ \E l \in Input :
        IF l = EOF
        THEN StopIteration(gh) /\ UNCHANGED <<nread, line, loc>>
        ELSE /\ nread' = nread + 1
             /\ line' = IF loc.skipped = 1 THEN l ELSE line
             /\ loc' = [loc EXCEPT !.skipped = IF @ = 2 THEN 0 ELSE @ + 1]
             /\ pc' = IF loc.skipped = 2 THEN "overlap: row" ELSE pc
             /\ UNCHANGED <<err, gh>>
    /\ UNCHANGED <<logkind, self, has>>

\* the first column j (counted from 1) of row t that cannot be stored: the
\* token is not a number, or an index is outside the matrix; 0 if none
OverlapFirstBad(t, base, i, dim) ==
    LET bad == { k \in 5..Len(t) :
                    ~IsNum(t[k]) \/ base + k - 5 >= dim \/ i + base >= dim }
    IN IF bad = {} THEN 0 ELSE CHOOSE k \in bad : \A q \in bad : k <= q

\* as OverlapWrites, without the mirrored assignment of line 684
OverlapWritesOneTriangle(mat, t, base, i, upto) ==
    [r \in DOMAIN mat |-> [c \in DOMAIN mat[r] |->
        IF \E k \in 5..upto : r = base + k - 5 /\ c = i + base
        THEN t[(CHOOSE k \in 5..upto : r = base + k - 5 /\ c = i + base)].v
        ELSE mat[r][c]]]

\* self.aooverlaps[base+j-4, i+base] = self.aooverlaps[i+base, base+j-4] =
\* float(temp[j]) for the columns 5..upto of row t
OverlapWrites(mat, t, base, i, upto) ==
    [r \in DOMAIN mat |-> [c \in DOMAIN mat[r] |->
        IF \E k \in 5..upto : \/ (r = base + k - 5 /\ c = i + base)
                              \/ (r = i + base /\ c = base + k - 5)
        THEN t[(CHOOSE k \in 5..upto : \/ (r = base + k - 5 /\ c = i + base)
                                       \/ (r = i + base /\ c = base + k - 5))].v
        ELSE mat[r][c]]]

\* as RowsOfBand, were every band as long as the first
RowsOfEveryBand(nbasis, base) == nbasis

\* range(self.nbasis - base): the data rows of the band that starts at column base
RowsOfBand(nbasis, base) == nbasis - base

\* one pass of for i in range(self.nbasis - base), and the end of the band
\* after the last row
OverlapRow ==
    /\ pc = "overlap: row" /\ err = "none"
    /\ \E l \in Input :
        IF l = EOF
        THEN StopIteration(gh) /\ UNCHANGED <<nread, line, loc, self>>
        ELSE LET bad == OverlapFirstBad(l.t, loc.base, loc.i, Dim(self.aooverlaps))
                 upto == IF bad = 0 THEN Len(l.t) ELSE bad - 1
                 s == [self EXCEPT !.aooverlaps =
                            OverlapWrites(@, l.t, loc.base, loc.i, upto)]
             IN /\ nread' = nread + 1
                /\ self' = s
                /\ gh' = [gh EXCEPT !.ovrow = l]
                /\ IF bad # 0
                   THEN /\ Raise(IF IsNum(l.t[bad]) THEN "IndexError" ELSE "ValueError")
                        /\ line' = l
                        /\ UNCHANGED loc
                   ELSE /\ UNCHANGED err
                        /\ IF loc.i + 1 < RowsOfBand(self.nbasis, loc.base)
                           THEN /\ loc' = [loc EXCEPT !.i = @ + 1]
                                /\ line' = l
                                /\ UNCHANGED pc
                           ELSE IF loc.base + 5 < self.nbasis
                           THEN /\ loc' = [loc EXCEPT !.base = @ + 5, !.i = 0]
                                /\ line' = l
                                /\ pc' = "overlap: band header"
                           ELSE Resume("OVERLAP MATRIX", l, s)
    /\ UNCHANGED <<logkind, has>>

-----------------------------------------------------------------------------
(* Vibrational analysis: frequencies, intensities and displacements *)

\* the groups of columns and the axes of the displacement table
VibColumns == 5
VibAxes == 3
\* for j in range(10): the Sayvetz lines that close a group of columns
SayvetzLines == 10

\* map(float, t[from:]): the error raised, or the values
RECURSIVE Floats(_, _)
Floats(t, from) ==
    IF from > Len(t) THEN [e |-> "none", v |-> <<>>]
    ELSE IF ~IsNum(t[from]) THEN [e |-> "ValueError", v |-> <<>>]
    ELSE LET r == Floats(t, from + 1)
         IN [e |-> r.e, v |-> <<t[from].v>> \o r.v]

\* the loop over freq of lines 385-390: an "I" negates the value before it
RECURSIVE NewFreq(_, _, _)
NewFreq(t, from, newfreq) ==
    IF from > Len(t) THEN [e |-> "none", v |-> newfreq]
    ELSE IF t[from].k = "I"
    THEN IF newfreq = <<>> THEN [e |-> "IndexError", v |-> newfreq]
         ELSE NewFreq(t, from + 1,
                      [newfreq EXCEPT ![Len(newfreq)] = 0 - newfreq[Len(newfreq)]])
    ELSE IF ~IsNum(t[from]) THEN [e |-> "ValueError", v |-> newfreq]
    ELSE NewFreq(t, from + 1, Append(newfreq, t[from].v))

\* line[21:].split()
From21(ln) == IF "label in line[0:21]" \in ln.m THEN Tail(ln.t) ELSE <<>>

\* a slice bound of a sequence of length n, as Python clips it
Clip(a, n) == IF a < 0 THEN (IF a + n < 0 THEN 0 ELSE a + n) ELSE (IF a > n THEN n ELSE a)
\* l[:a] and l[b:]
SliceTo(l, a) == SubSeq(l, 1, Clip(a, Len(l)))
SliceFrom(l, b) == SubSeq(l, Clip(b, Len(l)) + 1, Len(l))

\* l[:startrot-1] + l[endrot:] for a list l
WithoutRotations(l, startrot, endrot) == SliceTo(l, startrot - 1) \o SliceFrom(l, endrot)

\* a + b for one-dimensional numpy arrays: elementwise, a length-1 operand is
\* stretched, other unequal lengths cannot be broadcast
ArrayAdd(a, b) ==
    IF Len(a) = Len(b) THEN [e |-> "none", v |-> [i \in DOMAIN a |-> a[i] + b[i]]]
    ELSE IF Len(a) = 1 THEN [e |-> "none", v |-> [i \in DOMAIN b |-> a[1] + b[i]]]
    ELSE IF Len(b) = 1 THEN [e |-> "none", v |-> [i \in DOMAIN a |-> a[i] + b[1]]]
    ELSE [e |-> "ValueError", v |-> <<>>]

\* self.vibramans[:startrot-1] + self.vibramans[endrot:] of line 441
VibramansWithoutRotations(r, startrot, endrot) ==
    IF r.array
    THEN ArrayAdd(SliceTo(r.v, startrot - 1), SliceFrom(r.v, endrot))
    ELSE [e |-> "none", v |-> WithoutRotations(r.v, startrot, endrot)]

\* the trigger line: vibfreqs, vibirs and vibdisps start empty
NormalCoordinateAnalysis ==
    /\ pc = "NORMAL COORDINATE ANALYSIS" /\ err = "none"
    /\ self' = [self EXCEPT !.vibfreqs = <<>>, !.vibirs = <<>>, !.vibdisps = <<>>]
    /\ has' = has \cup {"vibfreqs", "vibirs", "vibdisps"}
    /\ loc' = [loc EXCEPT !.warning = FALSE]
    /\ pc' = "vib: modes"
    /\ gh' = [Fired("NORMAL COORDINATE ANALYSIS") EXCEPT
                !.vibmodes = 0, !.vibraman = FALSE, !.vibrot = <<0, 0>>]
    /\ UNCHANGED <<logkind, nread, line, err>>

\* one pass of while line.find("MODES") == -1
VibFindModes ==
    /\ pc = "vib: modes" /\ err = "none"
    /\ "MODES" \notin line.m
    /\ \E l \in Input :
        IF l = EOF
        THEN StopIteration(gh) /\ UNCHANGED <<nread, line, loc>>
        ELSE /\ nread' = nread + 1
             /\ line' = l
             /\ loc' = [loc EXCEPT !.warning =
                            @ \/ "THIS IS NOT A STATIONARY POINT" \in l.m]
             /\ UNCHANGED <<pc, err, gh>>
    /\ UNCHANGED <<logkind, self, has>>

\* the loop ends at the line that holds MODES
VibModes ==
    /\ pc = "vib: modes" /\ err = "none"
    /\ "MODES" \in line.m
    /\ pc' = "vib: modes line"
    /\ UNCHANGED <<logkind, nread, line, err, self, has, loc, gh>>

\* startrot = int(line.split()[1]); endrot = int(line.split()[3]);
\* blank = inputfile.next()
VibModesLine ==
    /\ pc = "vib: modes line" /\ err = "none"
    /\ LET a == FloatAt(line.t, 2)
           b == FloatAt(line.t, 4)
       IN IF a.e # "none" \/ b.e # "none"
          THEN /\ Raise(IF a.e # "none" THEN a.e ELSE b.e)
               /\ UNCHANGED <<nread, line, loc, gh>>
          ELSE \E l \in Input :
                IF l = EOF
                THEN StopIteration(gh) /\ UNCHANGED <<nread, line, loc>>
                ELSE /\ nread' = nread + 1
                     /\ loc' = [loc EXCEPT !.startrot = a.v, !.endrot = b.v, !.blank = l]
                     /\ pc' = "vib: frequencies"
                     /\ gh' = [gh EXCEPT !.vibrot = <<a.v, b.v>>]
                     /\ UNCHANGED <<line, err>>
    /\ UNCHANGED <<logkind, self, has>>

\* line = inputfile.next()  # FREQUENCIES, etc.
VibFrequencies ==
    /\ pc = "vib: frequencies" /\ err = "none"
    /\ \E l \in Input :
        IF l = EOF
        THEN StopIteration(gh) /\ UNCHANGED <<nread, line>>
        ELSE /\ nread' = nread + 1
             /\ line' = l
             /\ pc' = "vib: until blank"
             /\ UNCHANGED <<err, gh>>
    /\ UNCHANGED <<logkind, self, has, loc>>

\* one pass of while line != blank (lines 375 and 379)
VibUntilBlank ==
    /\ pc = "vib: until blank" /\ err = "none"
    /\ line # loc.blank
    /\ \E l \in Input :
        IF l = EOF
        THEN StopIteration(gh) /\ UNCHANGED <<nread, line>>
        ELSE /\ nread' = nread + 1
             /\ line' = l
             /\ UNCHANGED <<pc, err, gh>>
    /\ UNCHANGED <<logkind, self, has, loc>>

\* line == blank: with a warning, line = inputfile.next() and the second
\* while line != blank; without, freqNo = inputfile.next()
VibAtBlank ==
    /\ pc = "vib: until blank" /\ err = "none"
    /\ line = loc.blank
    /\ \E l \in Input :
        IF l = EOF
        THEN StopIteration(gh) /\ UNCHANGED <<nread, line, loc>>
        ELSE /\ nread' = nread + 1
             /\ IF loc.warning
                THEN /\ line' = l
                     /\ loc' = [loc EXCEPT !.warning = FALSE]
                     /\ UNCHANGED pc
                ELSE /\ loc' = [loc EXCEPT !.freqNo = l]
                     /\ pc' = "vib: group"
                     /\ UNCHANGED line
             /\ UNCHANGED <<err, gh>>
    /\ UNCHANGED <<logkind, self, has>>

\* while freqNo.find("SAYVETZ") == -1: freq = inputfile.next()...;
\* self.vibfreqs.extend(newfreq)
VibFrequencyRow ==
    /\ pc = "vib: group" /\ err = "none"
    /\ "SAYVETZ" \notin loc.freqNo.m
    /\ \E l \in Input :
        IF l = EOF
        THEN StopIteration(gh) /\ UNCHANGED <<nread, self>>
        ELSE LET r == NewFreq(l.t, 2, <<>>)
             IN /\ nread' = nread + 1
                /\ IF r.e # "none"
                   THEN Raise(r.e) /\ UNCHANGED <<self, gh>>
                   ELSE /\ self' = [self EXCEPT !.vibfreqs = @ \o r.v]
                        /\ gh' = [gh EXCEPT !.vibmodes = @ + Len(r.v)]
                        /\ pc' = "vib: ir"
                        /\ UNCHANGED err
    /\ UNCHANGED <<logkind, line, has, loc>>

\* self.vibirs.extend([utils.convertor(x, ...) for x in irIntensity])
VibIrOf(ln) ==
    LET r == Floats(ln.t, 3)
    IN [e |-> r.e,
        v |-> [i \in DOMAIN r.v |->
                  convertor(r.v[i], "Debye^2/amu-Angstrom^2", "km/mol")]]

\* line = inputfile.next(); if line.find("REDUCED") >= 0: the intensities
\* are on the line after it
VibIrRow ==
    /\ pc \in {"vib: ir", "vib: ir after reduced mass"} /\ err = "none"
    /\ \E l \in Input :
        IF l = EOF
        THEN StopIteration(gh) /\ UNCHANGED <<nread, line, self>>
        ELSE /\ nread' = nread + 1
             /\ line' = l
             /\ UNCHANGED gh
             /\ IF pc = "vib: ir" /\ "REDUCED" \in l.m
                THEN /\ pc' = "vib: ir after reduced mass"
                     /\ UNCHANGED <<err, self>>
                ELSE LET r == VibIrOf(l)
                     IN IF r.e # "none"
                        THEN Raise(r.e) /\ UNCHANGED self
                        ELSE /\ self' = [self EXCEPT !.vibirs = @ \o r.v]
                             /\ pc' = "vib: raman"
                             /\ UNCHANGED err
    /\ UNCHANGED <<logkind, has, loc>>

\* the displacement table begins: p = [[], [], [], [], []] and the first q
VibBeginDisplacements(l) ==
    [l EXCEPT !.p = [c \in 1..VibColumns |-> <<>>],
              !.q = [c \in 1..VibColumns |-> <<>>],
              !.j = 0, !.k = 0]

\* if not hasattr(self, "vibramans"): self.vibramans = [];
\* self.vibramans.extend(map(float, ramanIntensity[2:])): a numpy array has
\* no extend, and the attribute is looked up before the values are converted
VibExtendRamans(s, h, t) ==
    LET r == Floats(t, 3)
        list == IF "vibramans" \in h THEN s.vibramans ELSE [array |-> FALSE, v |-> <<>>]
    IN IF list.array THEN [e |-> "AttributeError", s |-> s]
       ELSE IF r.e # "none" THEN [e |-> r.e, s |-> [s EXCEPT !.vibramans = list]]
       ELSE [e |-> "none", s |-> [s EXCEPT !.vibramans = [list EXCEPT !.v = @ \o r.v]]]

\* line = inputfile.next(); if line.find("RAMAN") >= 0: ... else
\* assert line == blank, and the displacement table begins
VibRamanRow ==
    /\ pc = "vib: raman" /\ err = "none"
    /\ \E l \in Input :
        IF l = EOF
        THEN StopIteration(gh) /\ UNCHANGED <<nread, line, self, has, loc>>
        ELSE /\ nread' = nread + 1
             /\ line' = l
             /\ IF "RAMAN" \in l.m
                THEN LET r == VibExtendRamans(self, has, l.t)
                     IN /\ self' = r.s
                        /\ has' = has \cup {"vibramans"}
                        /\ gh' = [gh EXCEPT !.vibraman = TRUE]
                        /\ UNCHANGED loc
                        /\ IF r.e # "none" THEN Raise(r.e)
                           ELSE pc' = "vib: depolarization" /\ UNCHANGED err
                ELSE /\ UNCHANGED <<self, has, gh>>
                     /\ IF l # loc.blank
                        THEN Raise("AssertionError") /\ UNCHANGED loc
                        ELSE /\ loc' = VibBeginDisplacements(loc)
                             /\ pc' = "vib: displacements"
                             /\ UNCHANGED err
    /\ UNCHANGED logkind

\* depolar = inputfile.next()
VibDepolarization ==
    /\ pc = "vib: depolarization" /\ err = "none"
    /\ \E l \in Input :
        IF l = EOF
        THEN StopIteration(gh) /\ UNCHANGED nread
        ELSE /\ nread' = nread + 1
             /\ pc' = "vib: after depolarization"
             /\ UNCHANGED <<err, gh>>
    /\ UNCHANGED <<logkind, line, self, has, loc>>

\* line = inputfile.next(); assert line == blank
VibAfterDepolarization ==
    /\ pc = "vib: after depolarization" /\ err = "none"
    /\ \E l \in Input :
        IF l = EOF
        THEN StopIteration(gh) /\ UNCHANGED <<nread, line, loc>>
        ELSE /\ nread' = nread + 1
             /\ line' = l
             /\ UNCHANGED gh
             /\ IF l # loc.blank
                THEN Raise("AssertionError") /\ UNCHANGED loc
                ELSE /\ loc' = VibBeginDisplacements(loc)
                     /\ pc' = "vib: displacements"
                     /\ UNCHANGED err
    /\ UNCHANGED <<logkind, self, has>>

\* one pass of for k in range(3) within for j in range(len(self.atomnos)):
\* line = inputfile.next()[21:]; broken = map(float, line.split())
VibDisplacementRow ==
    /\ pc = "vib: displacements" /\ err = "none"
    /\ "atomnos" \in has /\ loc.j < Len(self.atomnos)
    /\ \E l \in Input :
        IF l = EOF
        THEN StopIteration(gh) /\ UNCHANGED <<nread, line, loc>>
        ELSE LET r == Floats(From21(l), 1)
                 n == Len(r.v)
                 q == [c \in 1..VibColumns |->
                          IF c <= n THEN Append(loc.q[c], r.v[c]) ELSE loc.q[c]]
                 p == [c \in 1..VibColumns |->
                          IF c <= n THEN Append(loc.p[c], q[c]) ELSE loc.p[c]]
             IN /\ nread' = nread + 1
                /\ line' = Ln({}, From21(l))
                /\ UNCHANGED gh
                /\ IF r.e # "none"
                   THEN Raise(r.e) /\ UNCHANGED loc
                   ELSE IF n > VibColumns
                   THEN Raise("IndexError") /\ loc' = [loc EXCEPT !.broken = <<n>>]
                   ELSE /\ UNCHANGED <<pc, err>>
                        /\ loc' = IF loc.k + 1 < VibAxes
                                  THEN [loc EXCEPT !.broken = <<n>>, !.q = q, !.k = @ + 1]
                                  ELSE [loc EXCEPT !.broken = <<n>>, !.p = p,
                                            !.q = [c \in 1..VibColumns |-> <<>>],
                                            !.k = 0, !.j = @ + 1]
    /\ UNCHANGED <<logkind, self, has>>

\* after the last atom: self.vibdisps.extend(p[:len(broken)])
VibDisplacementsEnd ==
    /\ pc = "vib: displacements" /\ err = "none"
    /\ ~("atomnos" \in has /\ loc.j < Len(self.atomnos))
    /\ IF "atomnos" \notin has
       THEN Raise("AttributeError") /\ UNCHANGED <<self, loc>>
       ELSE IF loc.broken = <<>>
       THEN Raise("NameError") /\ UNCHANGED <<self, loc>>
       ELSE /\ self' = [self EXCEPT !.vibdisps = @ \o SubSeq(loc.p, 1, loc.broken[1])]
            /\ loc' = [loc EXCEPT !.i = 0]
            /\ pc' = "vib: sayvetz"
            /\ UNCHANGED err
    /\ UNCHANGED <<logkind, nread, line, has, gh>>

\* for j in range(10): line = inputfile.next()
VibSayvetz ==
    /\ pc = "vib: sayvetz" /\ err = "none"
    /\ \E l \in Input :
        IF l = EOF
        THEN StopIteration(gh) /\ UNCHANGED <<nread, line, loc>>
        ELSE /\ nread' = nread + 1
             /\ line' = l
             /\ loc' = [loc EXCEPT !.i = @ + 1]
             /\ pc' = IF loc.i + 1 < SayvetzLines THEN pc ELSE "vib: blank"
             /\ UNCHANGED <<err, gh>>
    /\ UNCHANGED <<logkind, self, has>>

\* blank = inputfile.next()
VibBlank ==
    /\ pc = "vib: blank" /\ err = "none"
    /\ \E l \in Input :
        IF l = EOF
        THEN StopIteration(gh) /\ UNCHANGED <<nread, loc>>
        ELSE /\ nread' = nread + 1
             /\ loc' = [loc EXCEPT !.blank = l]
             /\ pc' = "vib: freqNo"
             /\ UNCHANGED <<err, gh>>
    /\ UNCHANGED <<logkind, line, self, has>>

\* freqNo = inputfile.next()
VibFreqNo ==
    /\ pc = "vib: freqNo" /\ err = "none"
    /\ \E l \in Input :
        IF l = EOF
        THEN StopIteration(gh) /\ UNCHANGED <<nread, loc>>
        ELSE /\ nread' = nread + 1
             /\ loc' = [loc EXCEPT !.freqNo = l]
             /\ pc' = "vib: group"
             /\ UNCHANGED <<err, gh>>
    /\ UNCHANGED <<logkind, line, self, has>>

\* freqNo holds SAYVETZ: rotations and translations are excluded and the
\* attributes become arrays (lines 437-441)
VibExcludeRotations ==
    /\ pc = "vib: group" /\ err = "none"
    /\ "SAYVETZ" \in loc.freqNo.m
    /\ LET a == loc.startrot
           b == loc.endrot
           s1 == [self EXCEPT !.vibfreqs = WithoutRotations(@, a, b),
                              !.vibirs = WithoutRotations(@, a, b),
                              !.vibdisps = WithoutRotations(@, a, b)]
           r == VibramansWithoutRotations(self.vibramans, a, b)
           s2 == [s1 EXCEPT !.vibramans = [array |-> TRUE, v |-> r.v]]
       IN IF "vibramans" \notin has
          THEN /\ self' = s1
               /\ Resume("NORMAL COORDINATE ANALYSIS", line, s1)
               /\ gh' = [gh EXCEPT !.vibblocks = @ + 1]
               /\ UNCHANGED err
          ELSE IF r.e # "none"
          THEN /\ self' = s1
               /\ Raise(r.e)
               /\ UNCHANGED <<line, loc, gh>>
          ELSE /\ self' = s2
               /\ Resume("NORMAL COORDINATE ANALYSIS", line, s2)
               /\ gh' = [gh EXCEPT !.vibblocks = @ + 1]
               /\ UNCHANGED err
    /\ UNCHANGED <<logkind, nread, has>>
-----------------------------------------------------------------------------
(* RESULTS OF MOLLER-PLESSET and CHARGE OF MOLECULE *)

\* mplevel = int(line[27:28])
MpLevelOf(ln) ==
    IF \E n \in 2..4 : DigitAt27(n) \in ln.m
    THEN [e |-> "none", v |-> CHOOSE n \in 2..4 : DigitAt27(n) \in ln.m]
    ELSE [e |-> "ValueError", v |-> 0]

\* as the function below, were the value the second column after every name
MpValueOfSecondColumn(t) ==
    CASE t[1].k \in {"E(MP2)=", "E(MP2)", "E(MP3)", "E(MP4-SDQ)", "E(MP4-SDTQ)"} -> FloatAt(t, 2)
      [] OTHER -> [e |-> "skip", v |-> 0]

\* the value a non-empty line adds to the block's entry: float(line.split()[1])
\* after "E(MP2)=", float(line.split()[2]) after the other names
MpValueOf(t) ==
    CASE t[1].k = "E(MP2)=" -> FloatAt(t, 2)
      [] t[1].k \in {"E(MP2)", "E(MP3)", "E(MP4-SDQ)", "E(MP4-SDTQ)"} -> FloatAt(t, 3)
      [] OTHER -> [e |-> "skip", v |-> 0]

MollerPlesset ==
    /\ pc = "RESULTS OF MOLLER-PLESSET" /\ err = "none"
    /\ has' = has \cup {"mpenergies"}
    /\ self' = [self EXCEPT !.mpenergies = Append(@, <<>>)]
    /\ gh' = Fired("RESULTS OF MOLLER-PLESSET")
    /\ LET r == MpLevelOf(line)
       IN IF r.e # "none"
          THEN Raise(r.e) /\ UNCHANGED loc
          ELSE /\ loc' = [loc EXCEPT !.mplevel = r.v]
               /\ pc' = "mp: while"
               /\ UNCHANGED err
    /\ UNCHANGED <<logkind, nread, line>>

\* one pass of while line.strip() <> "..... DONE WITH MP%i ENERGY ....." % mplevel
MpEnergyRow ==
    /\ pc = "mp: while" /\ err = "none"
    /\ DoneWith(loc.mplevel) \notin line.m
    /\ \E l \in Input :
        IF l = EOF
        THEN StopIteration(gh) /\ UNCHANGED <<nread, line, self>>
        ELSE /\ nread' = nread + 1
             /\ line' = l
             /\ gh' = gh
             /\ LET r == IF l.t = <<>> THEN [e |-> "skip", v |-> 0] ELSE MpValueOf(l.t)
                IN CASE r.e = "skip" -> UNCHANGED <<pc, err, self>>
                     [] r.e = "none" ->
                          /\ self' = [self EXCEPT !.mpenergies[Len(self.mpenergies)] =
                                         Append(@, convertor(r.v, "hartree", "eV"))]
                          /\ UNCHANGED <<pc, err>>
                     [] OTHER -> Raise(r.e) /\ UNCHANGED self
    /\ UNCHANGED <<logkind, has, loc>>

MpDone ==
    /\ pc = "mp: while" /\ err = "none"
    /\ DoneWith(loc.mplevel) \in line.m
    /\ Resume("RESULTS OF MOLLER-PLESSET", line, self)
    /\ UNCHANGED <<logkind, nread, err, self, has, gh>>

\* self.charge = int(line.split()[-1]); self.mult = int(inputfile.next().split()[-1])
ChargeOfMolecule ==
    /\ pc = "CHARGE OF MOLECULE" /\ err = "none"
    /\ LET c == IntLast(line)
           g == Fired("CHARGE OF MOLECULE")
       IN IF c.e # "none"
          THEN Raise(c.e) /\ gh' = g /\ UNCHANGED <<nread, line, self, has, loc>>
          ELSE \E l \in Input :
                LET s == [self EXCEPT !.charge = c.v]
                    m == IntLast(l)
                IN IF l = EOF
                   THEN /\ StopIteration(g)
                        /\ self' = s /\ has' = has \cup {"charge"}
                        /\ UNCHANGED <<nread, line, loc>>
                   ELSE /\ nread' = nread + 1
                        /\ gh' = [g EXCEPT !.multline = l]
                        /\ IF m.e # "none"
                           THEN /\ Raise(m.e)
                                /\ self' = s /\ has' = has \cup {"charge"}
                                /\ UNCHANGED <<line, loc>>
                           ELSE LET s2 == [s EXCEPT !.mult = m.v]
                                IN /\ self' = s2
                                   /\ has' = has \cup {"charge", "mult"}
                                   /\ Resume("CHARGE OF MOLECULE", line, s2)
                                   /\ UNCHANGED err
    /\ UNCHANGED logkind

-----------------------------------------------------------------------------
(* EXCITATION ENERGIES *)

ExcitationEnergies ==
    /\ pc = "EXCITATION ENERGIES" /\ err = "none"
    /\ has' = has \cup {"etenergies"}
    /\ gh' = Fired("EXCITATION ENERGIES")
    /\ pc' = "et: header"
    /\ loc' = [loc EXCEPT !.skipped = 0]
    /\ UNCHANGED <<logkind, nread, line, err, self>>

\* header = inputfile.next(); dashes = inputfile.next(); line = inputfile.next()
EtHeader ==
    /\ pc = "et: header" /\ err = "none"
    /\ \E l \in Input :
        IF l = EOF
        THEN StopIteration(gh) /\ UNCHANGED <<nread, line, loc>>
        ELSE /\ nread' = nread + 1
             /\ line' = IF loc.skipped = 2 THEN l ELSE line
             /\ loc' = [loc EXCEPT !.skipped = IF @ = 2 THEN 0 ELSE @ + 1]
             /\ pc' = IF loc.skipped = 2 THEN "et: while" ELSE pc
             /\ UNCHANGED <<err, gh>>
    /\ UNCHANGED <<logkind, self, has>>

\* one pass of while len(line.split()) > 0
EtRow ==
    /\ pc = "et: while" /\ err = "none"
    /\ Strip(line)
    /\ LET r == FloatAt(line.t, 2)
       IN IF r.e # "none"
          THEN Raise(r.e) /\ UNCHANGED <<nread, line, self, gh>>
          ELSE LET s == [self EXCEPT !.etenergies =
                            Append(@, convertor(r.v, "hartree", "cm-1"))]
               IN \E l \in Input :
                    /\ self' = s
                    /\ IF l = EOF
                       THEN StopIteration(gh) /\ UNCHANGED <<nread, line>>
                       ELSE /\ nread' = nread + 1
                            /\ line' = l
                            /\ UNCHANGED <<pc, err, gh>>
    /\ UNCHANGED <<logkind, has, loc>>

EtEnd ==
    /\ pc = "et: while" /\ err = "none"
    /\ ~Strip(line)
    /\ Resume("EXCITATION ENERGIES", line, self)
    /\ UNCHANGED <<logkind, nread, err, self, has, gh>>

-----------------------------------------------------------------------------
(* EIGENVECTORS *)

\* the characters of a symmetry label printed in a log
Chars(k) ==
    CASE k = "AG" -> <<"A", "G">>
      [] k = "BU" -> <<"B", "U">>
      [] k = "A''" -> <<"A", "'", "'">>
      [] k = "A1" -> <<"A", "1">>
      [] OTHER -> <<k>>

\* as zeros, were the matrix square in the number of basis functions
zerosSquare(nmo, nbasis) == [r \in 1..nbasis |-> [c \in 1..nbasis |-> 0]]

\* numpy.zeros((nmo, nbasis), "d")
zeros(nmo, nbasis) == [r \in 1..nmo |-> [c \in 1..nbasis |-> 0]]

\* the number of tokens a row has within line[:15], before its coefficients:
\* four when p.search(line[:17].strip()) finds number, element, number, type
\* ("    1  C  1  S"), three otherwise ("   20  C    XXX")
pSearch(t) ==
    /\ Len(t) >= 4
    /\ IsNum(t[1]) /\ ~IsNum(t[2]) /\ IsNum(t[3]) /\ ~IsNum(t[4])
Crud(t) == IF pSearch(t) THEN 4 ELSE 3

\* the body of "if readatombasis and base == 0" for a row with tokens t: the
\* error raised, or atombasis, aonames and oldatom after it
AtomBasisOf(t, s, oldatom) ==
    LET atom == IF pSearch(t) THEN t[3].v ELSE oldatom
        at == ListIndex(atom - 1, Len(s.atombasis))
        aoname == IF pSearch(t) THEN <<t[2].k, atom, t[4].k>> ELSE <<t[2].k, atom, t[3].k>>
        e == CASE pSearch(t) -> "none"
               [] Len(t) < 3 -> "IndexError"          \* g[1], g[2]
               [] ~IsNum(t[1]) -> "ValueError"        \* int(g[0])
               [] OTHER -> "none"
    IN  IF e # "none" THEN [e |-> e, s |-> s, oldatom |-> oldatom]
        ELSE IF at = 0 THEN [e |-> "IndexError", s |-> s, oldatom |-> atom]
        ELSE [e |-> "none", oldatom |-> atom,
              s |-> [s EXCEPT !.atombasis[at] = Append(@, t[1].v - 1),
                              !.aonames = Append(@, aoname)]]

\* the while loop over the coefficients cs of row i: the error raised at the
\* first one that is no number or lies beyond the matrix, and the matrix with
\* the ones before it stored at [base+j, i]
CoeffsOf(M, cs, base, i) ==
    LET bad == { j \in 1..Len(cs) : ~IsNum(cs[j]) \/ base + j > Len(M) }
        first == IF bad = {} THEN Len(cs) + 1 ELSE CHOOSE j \in bad : \A q \in bad : j <= q
    IN  [e |-> CASE bad = {} -> "none"
                 [] ~IsNum(cs[first]) -> "ValueError"
                 [] OTHER -> "IndexError",
         M |-> [r \in 1..Len(M) |->
                   IF r - base \in 1..(first - 1)
                   THEN [M[r] EXCEPT ![i + 1] = cs[r - base].v]
                   ELSE M[r]]]

\* lines 540-553: the three lists are made anew, atombasis and aonames once;
\* dashes = inputfile.next()
Eigenvectors ==
    /\ pc = "EIGENVECTORS" /\ err = "none"
    /\ LET g == [Fired("EIGENVECTORS") EXCEPT !.mostate = "running", !.moblocks = @ + 1,
                                              !.moafter = NoLine, !.molast = NoLine]
           s1 == [self EXCEPT !.moenergies = << <<>> >>, !.mosyms = << <<>> >>]
           h1 == has \cup {"moenergies", "mosyms"}
           nmo == IF "nmo" \in has THEN self.nmo ELSE self.nbasis
           s2 == [s1 EXCEPT !.nmo = nmo, !.mocoeffs = <<zeros(nmo, self.nbasis)>>]
           h2 == h1 \cup {"nmo", "mocoeffs"}
           readatombasis == "atombasis" \notin has
           h3 == h2 \cup {"atombasis", "aonames"}
           s3 == IF readatombasis
                 THEN [s2 EXCEPT !.atombasis = [i \in 1..self.natom |-> <<>>],
                                 !.aonames = <<>>]
                 ELSE s2
       IN CASE "nbasis" \notin has ->
                 /\ Raise("AttributeError")
                 /\ self' = s1 /\ has' = h1 /\ gh' = g
                 /\ UNCHANGED <<nread, line, loc>>
            [] "nbasis" \in has /\ readatombasis /\ "natom" \notin has ->
                 /\ Raise("AttributeError")
                 /\ self' = [s2 EXCEPT !.atombasis = <<>>, !.aonames = <<>>]
                 /\ has' = h3 /\ gh' = g
                 /\ UNCHANGED <<nread, line, loc>>
            [] OTHER ->
                 /\ self' = s3 /\ has' = h3
                 /\ \E l \in Input :
                      IF l = EOF
                      THEN /\ StopIteration([g EXCEPT !.moshape = <<nmo, self.nbasis>>])
                           /\ UNCHANGED <<nread, line, loc>>
                      ELSE /\ nread' = nread + 1
                           /\ gh' = [g EXCEPT !.molast = l, !.moshape = <<nmo, self.nbasis>>]
                           /\ loc' = [LocInit EXCEPT !.readatombasis = readatombasis]
                           /\ pc' = "mo: header"
                           /\ UNCHANGED <<line, err>>
    /\ UNCHANGED logkind

\* the head of a pass of "for base in range(0, self.nmo, 5)": blank, the
\* eigenvector numbers, the eigenvalues and the orbital symmetries
MoHeader ==
    /\ pc = "mo: header" /\ err = "none"
    /\ loc.base < self.nmo
    /\ \E l \in Input :
        IF l = EOF
        THEN StopIteration(gh) /\ UNCHANGED <<nread, line, self, loc>>
        ELSE LET ch == loc.channel + 1
                 bad == \E i \in DOMAIN l.t : ~IsNum(l.t[i])
                 energies == [i \in DOMAIN l.t |-> convertor(l.t[i].v, "hartree", "eV")]
                 syms == [i \in DOMAIN l.t |-> normalisesym(Chars(l.t[i].k))]
             IN /\ nread' = nread + 1
                /\ line' = IF loc.skipped = 0 THEN line ELSE l
                /\ gh' = [gh EXCEPT !.molast = l]
                /\ IF loc.skipped = 2 /\ bad
                   THEN Raise("ValueError") /\ UNCHANGED <<self, loc>>
                   ELSE /\ self' = CASE loc.skipped = 2 ->
                                          [self EXCEPT !.moenergies[ch] = @ \o energies]
                                     [] loc.skipped = 3 ->
                                          [self EXCEPT !.mosyms[ch] = @ \o syms]
                                     [] OTHER -> self
                        /\ loc' = CASE loc.skipped < 3 -> [loc EXCEPT !.skipped = @ + 1]
                                    [] self.nbasis = 0 ->
                                         [loc EXCEPT !.skipped = 0, !.base = @ + 5]
                                    [] OTHER -> [loc EXCEPT !.skipped = 0, !.i = 0]
                        /\ pc' = IF loc.skipped = 3 /\ self.nbasis > 0
                                 THEN "mo: rows" ELSE pc
                        /\ UNCHANGED err
    /\ UNCHANGED <<logkind, has>>

\* as FillAtomBasis, were the names taken in every section
FillAtomBasisEverySection(readatombasis, base) == readatombasis

\* if readatombasis and base == 0
FillAtomBasis(readatombasis, base) == readatombasis /\ base = 0

\* one pass of "for i in range(self.nbasis)"
MoRow ==
    /\ pc = "mo: rows" /\ err = "none"
    /\ \E l \in Input :
        IF l = EOF
        THEN StopIteration(gh) /\ UNCHANGED <<nread, line, self, loc>>
        ELSE LET ch == loc.channel + 1
                 fill == loc.channel = 0 /\ FillAtomBasis(loc.readatombasis, loc.base)
                 ab == IF fill THEN AtomBasisOf(l.t, self, loc.oldatom)
                       ELSE [e |-> "none", s |-> self, oldatom |-> loc.oldatom]
                 cs == SubSeq(l.t, Crud(l.t) + 1, Len(l.t))
                 co == CoeffsOf(self.mocoeffs[ch], cs, loc.base, loc.i)
                 last == loc.i + 1 = self.nbasis
             IN /\ nread' = nread + 1
                /\ line' = l
                /\ gh' = [gh EXCEPT !.molast = l]
                /\ IF ab.e # "none"
                   THEN /\ Raise(ab.e)
                        /\ self' = ab.s
                        /\ loc' = [loc EXCEPT !.oldatom = ab.oldatom]
                   ELSE /\ self' = [ab.s EXCEPT !.mocoeffs[ch] = co.M]
                        /\ IF co.e # "none"
                           THEN /\ Raise(co.e)
                                /\ loc' = [loc EXCEPT !.oldatom = ab.oldatom]
                           ELSE /\ loc' = [loc EXCEPT !.oldatom = ab.oldatom,
                                                      !.i = IF last THEN 0 ELSE @ + 1,
                                                      !.base = IF last THEN @ + 5 ELSE @]
                                /\ pc' = IF last THEN "mo: header" ELSE pc
                                /\ UNCHANGED err
    /\ UNCHANGED <<logkind, has>>

\* as EndOf, were every line taken for the end of the calculation
EndOfAnyLine(ln) == TRUE

\* "END OF" in line, line.find("END OF") >= 0
EndOf(ln) == "END OF" \in ln.m

\* lines 594-612: the line after the first channel's sections
MoAfterAlpha ==
    /\ pc = "mo: header" /\ err = "none"
    /\ loc.base >= self.nmo /\ loc.channel = 0
    /\ \E l \in Input :
        IF l = EOF
        THEN StopIteration(gh) /\ UNCHANGED <<nread, line, self, loc>>
        ELSE /\ nread' = nread + 1
             /\ IF EndOf(l)
                THEN /\ gh' = [gh EXCEPT !.molast = l, !.moafter = l, !.mostate = "completed"]
                     /\ Resume("EIGENVECTORS", l, self)
                     /\ UNCHANGED self
                ELSE /\ gh' = [gh EXCEPT !.molast = l, !.moafter = l]
                     /\ self' = [self EXCEPT
                                   !.mocoeffs = Append(@, zeros(self.nmo, self.nbasis)),
                                   !.moenergies = Append(@, <<>>),
                                   !.mosyms = Append(@, <<>>)]
                     /\ line' = l
                     /\ loc' = [loc EXCEPT !.channel = 1, !.skipped = 0]
                     /\ pc' = "mo: beta skip"
             /\ UNCHANGED err
    /\ UNCHANGED <<logkind, has>>

\* for i in range(5): line = inputfile.next()
MoBetaSkip ==
    /\ pc = "mo: beta skip" /\ err = "none"
    /\ \E l \in Input :
        IF l = EOF
        THEN StopIteration(gh) /\ UNCHANGED <<nread, line, loc>>
        ELSE /\ nread' = nread + 1
             /\ line' = l
             /\ gh' = [gh EXCEPT !.molast = l]
             /\ loc' = [loc EXCEPT !.skipped = IF @ = 4 THEN 0 ELSE @ + 1,
                                   !.base = 0]
             /\ pc' = IF loc.skipped = 4 THEN "mo: header" ELSE pc
             /\ UNCHANGED err
    /\ UNCHANGED <<logkind, self, has>>

\* lines 629-630: the line after the second channel's sections, and the assert
MoAfterBeta ==
    /\ pc = "mo: header" /\ err = "none"
    /\ loc.base >= self.nmo /\ loc.channel = 1
    /\ \E l \in Input :
        IF l = EOF
        THEN StopIteration(gh) /\ UNCHANGED <<nread, line, loc>>
        ELSE /\ nread' = nread + 1
             /\ IF EndOf(l)
                THEN /\ gh' = [gh EXCEPT !.molast = l, !.mostate = "completed"]
                     /\ Resume("EIGENVECTORS", l, self)
                     /\ UNCHANGED err
                ELSE /\ gh' = [gh EXCEPT !.molast = l]
                     /\ Raise("AssertionError")
                     /\ line' = l
                     /\ UNCHANGED loc
    /\ UNCHANGED <<logkind, self, has>>

-----------------------------------------------------------------------------
(* homos *)

\* as resize, were the entries kept the last ones
resizeFromEnd(a, n) == SubSeq(a, Len(a) - n + 1, Len(a))

\* numpy.resize(a, [n]) for n <= len(a): the first n entries
resize(a, n) == SubSeq(a, 1, n)

\* homos = [int(line.split()[-1])-1]; line = inputfile.next();
\* homos.append(int(line.split()[-1])-1); self.homos = numpy.array(homos, "i")
NumberOfOccupiedOrbitals ==
    /\ pc = "NUMBER OF OCCUPIED ORBITALS" /\ err = "none"
    /\ LET a == IntLast(line)
           g == Fired("NUMBER OF OCCUPIED ORBITALS")
       IN IF a.e # "none"
          THEN Raise(a.e) /\ gh' = g /\ UNCHANGED <<nread, line, self, has, loc>>
          ELSE \E l \in Input :
                IF l = EOF
                THEN StopIteration(g) /\ UNCHANGED <<nread, line, self, has, loc>>
                ELSE LET b == IntLast(l)
                     IN /\ nread' = nread + 1
                        /\ IF b.e # "none"
                           THEN /\ Raise(b.e)
                                /\ line' = l
                                /\ gh' = g
                                /\ UNCHANGED <<self, has, loc>>
                           ELSE LET s == [self EXCEPT !.homos = <<a.v - 1, b.v - 1>>]
                                IN /\ self' = s
                                   /\ has' = has \cup {"homos"}
                                   /\ gh' = [g EXCEPT !.homos = Append(@, "occupied"),
                                                      !.occupied = <<line, l>>]
                                   /\ Resume("NUMBER OF OCCUPIED ORBITALS", l, s)
                                   /\ UNCHANGED err
    /\ UNCHANGED logkind

\* if line.find("BOTH SET(S)") >= 0: self.homos = numpy.resize(self.homos, [1])
SymmetriesForInitialGuess ==
    /\ pc = "SYMMETRIES FOR INITIAL GUESS ORBITALS FOLLOW" /\ err = "none"
    /\ LET g == Fired("SYMMETRIES FOR INITIAL GUESS ORBITALS FOLLOW")
       IN IF "BOTH SET(S)" \in line.m
          THEN IF "homos" \notin has
               THEN Raise("AttributeError") /\ gh' = g /\ UNCHANGED <<line, self, loc>>
               ELSE LET s == [self EXCEPT !.homos = resize(@, 1)]
                    IN /\ self' = s
                       /\ gh' = [g EXCEPT !.homos = Append(@, "both")]
                       /\ Resume("SYMMETRIES FOR INITIAL GUESS ORBITALS FOLLOW", line, s)
                       /\ UNCHANGED err
          ELSE /\ gh' = [g EXCEPT !.homos = Append(@, "other")]
               /\ Resume("SYMMETRIES FOR INITIAL GUESS ORBITALS FOLLOW", line, self)
               /\ UNCHANGED <<err, self>>
    /\ UNCHANGED <<logkind, nread, has>>

-----------------------------------------------------------------------------
(* ECP POTENTIALS *)

\* int(header[a:b]) of the fixed-column field kept as token i
IntField(t, i) ==
    IF i > Len(t) \/ ~IsNum(t[i])
    THEN [e |-> "ValueError", v |-> 0]
    ELSE [e |-> "none", v |-> t[i].v]

\* as EcpParametersOf, were a header with a field that is not a number passed over
EcpParametersOfLenient(h, core) == [e |-> "none", v |-> core]

\* the body of the header loop up to the first inputfile.next(): the error
\* raised, or coreelectrons after the header h
EcpParametersOf(h, core) ==
    LET atomnum == IntField(h.t, 2)
        field == IntField(h.t, 3)      \* zcore, or atomcopy
        lmax == IntField(h.t, 4)
        n == Len(core)
        fail(e) == [e |-> e, v |-> core]
    IN IF atomnum.e # "none" THEN fail(atomnum.e)
       ELSE IF "WITH ZCORE" \in h.m
       THEN IF field.e # "none" THEN fail(field.e)
            ELSE IF lmax.e # "none" THEN fail(lmax.e)
            ELSE IF ListIndex(atomnum.v - 1, n) = 0 THEN fail("IndexError")
            ELSE [e |-> "none", v |-> [core EXCEPT ![ListIndex(atomnum.v - 1, n)] = field.v]]
       ELSE IF "ARE THE SAME AS" \in h.m
       THEN IF field.e # "none" THEN fail(field.e)
            ELSE IF ListIndex(field.v - 1, n) = 0 \/ ListIndex(atomnum.v - 1, n) = 0
                 THEN fail("IndexError")
            ELSE [e |-> "none",
                  v |-> [core EXCEPT ![ListIndex(atomnum.v - 1, n)] =
                                        core[ListIndex(field.v - 1, n)]]]
       ELSE [e |-> "none", v |-> core]

EcpPotentials ==
    /\ pc = "ECP POTENTIALS" /\ err = "none"
    /\ gh' = Fired("ECP POTENTIALS")
    /\ IF "coreelectrons" \notin has /\ "natom" \notin has
       THEN Raise("AttributeError") /\ UNCHANGED <<self, has, loc>>
       ELSE /\ self' = IF "coreelectrons" \in has THEN self
                       ELSE [self EXCEPT !.coreelectrons = [a \in 1..self.natom |-> 0]]
            /\ has' = has \cup {"coreelectrons"}
            /\ pc' = "ecp: preamble"
            /\ loc' = [loc EXCEPT !.skipped = 0]
            /\ UNCHANGED err
    /\ UNCHANGED <<logkind, nread, line>>

\* dashes = inputfile.next(); blank = inputfile.next(); header = inputfile.next()
EcpPreamble ==
    /\ pc = "ecp: preamble" /\ err = "none"
    /\ \E l \in Input :
        IF l = EOF
        THEN StopIteration(gh) /\ UNCHANGED <<nread, loc>>
        ELSE /\ nread' = nread + 1
             /\ loc' = [loc EXCEPT !.skipped = IF @ = 2 THEN 0 ELSE @ + 1,
                                   !.header = IF loc.skipped = 2 THEN l ELSE @]
             /\ pc' = IF loc.skipped = 2 THEN "ecp: header" ELSE pc
             /\ UNCHANGED <<err, gh>>
    /\ UNCHANGED <<logkind, line, self, has>>

\* one pass of while header.split()[0] == "PARAMETERS", up to the first line
\* of the atom's parameters
EcpParameters ==
    /\ pc = "ecp: header" /\ err = "none"
    /\ loc.header.t # <<>> /\ loc.header.t[1].k = "PARAMETERS"
    /\ LET r == EcpParametersOf(loc.header, self.coreelectrons)
       IN IF r.e # "none"
          THEN Raise(r.e) /\ UNCHANGED <<nread, line, self, gh>>
          ELSE \E l \in Input :
                /\ self' = [self EXCEPT !.coreelectrons = r.v]
                /\ IF l = EOF
                   THEN StopIteration(gh) /\ UNCHANGED <<nread, line>>
                   ELSE /\ nread' = nread + 1
                        /\ line' = l
                        /\ pc' = "ecp: parameters"
                        /\ UNCHANGED <<err, gh>>
    /\ UNCHANGED <<logkind, has, loc>>

\* one pass of while line.split() <> []
EcpParametersLine ==
    /\ pc = "ecp: parameters" /\ err = "none"
    /\ Strip(line)
    /\ \E l \in Input :
        IF l = EOF
        THEN StopIteration(gh) /\ UNCHANGED <<nread, line>>
        ELSE /\ nread' = nread + 1
             /\ line' = l
             /\ UNCHANGED <<pc, err, gh>>
    /\ UNCHANGED <<logkind, self, has, loc>>

\* header = inputfile.next() after the empty line that ends an atom's parameters
EcpNextHeader ==
    /\ pc = "ecp: parameters" /\ err = "none"
    /\ ~Strip(line)
    /\ \E l \in Input :
        IF l = EOF
        THEN StopIteration(gh) /\ UNCHANGED <<nread, loc>>
        ELSE /\ nread' = nread + 1
             /\ loc' = [loc EXCEPT !.header = l]
             /\ pc' = "ecp: header"
             /\ UNCHANGED <<err, gh>>
    /\ UNCHANGED <<logkind, line, self, has>>

\* the header is not a PARAMETERS line: the block is over; an empty header
\* has no first token
EcpEnd ==
    /\ pc = "ecp: header" /\ err = "none"
    /\ IF loc.header.t = <<>>
       THEN Raise("IndexError") /\ UNCHANGED <<line, loc>>
       ELSE /\ loc.header.t[1].k # "PARAMETERS"
            /\ Resume("ECP POTENTIALS", line, self)
            /\ UNCHANGED err
    /\ UNCHANGED <<logkind, nread, self, has, gh>>

-----------------------------------------------------------------------------
(* ATOMIC BASIS SET *)

\* coeff.setdefault(key, []).append(pair)
SetDefaultAppend(coeff, key, pair) ==
    [x \in DOMAIN coeff \cup {key} |->
        IF x = key
        THEN Append(IF key \in DOMAIN coeff THEN coeff[key] ELSE <<>>, pair)
        ELSE coeff[x]]

\* assert temp[i][-1] == ')' and float(temp[i][:-1]), for the token at position i
FloatParen(t, i) ==
    IF i > Len(t) THEN [e |-> "IndexError", v |-> 0]
    ELSE IF t[i].k # "num)" THEN [e |-> "AssertionError", v |-> 0]
    ELSE [e |-> "none", v |-> t[i].v]

\* the first error of a sequence of results, "none" if there is none
FirstError(rs) ==
    IF \E i \in DOMAIN rs : rs[i].e # "none"
    THEN rs[CHOOSE i \in DOMAIN rs : rs[i].e # "none" /\ \A j \in 1..(i-1) : rs[j].e = "none"].e
    ELSE "none"

\* the body of while line.strip() for the row t: the error raised, or sym and
\* coeff after the row
BasisRowOf(t, coeff) ==
    LET sym == t[2].k
        exp == FloatAt(t, 4)
        fail(e) == [e |-> e, sym |-> <<>>, coeff |-> coeff]
        store(e, c) == [e |-> "none", sym |-> <<sym>>, coeff |-> c]
    IN IF Len(t) < 2 THEN fail("IndexError")
       ELSE IF sym \notin {"S", "P", "D", "F", "G", "L"} THEN fail("AssertionError")
       ELSE IF sym = "L"
       THEN IF Len(t) = 6
            THEN LET s == FloatAt(t, 5)
                     p == FloatAt(t, 6)
                     e == FirstError(<<exp, s, exp, p>>)
                 IN IF e # "none" THEN fail(e)
                    ELSE store(e, SetDefaultAppend(SetDefaultAppend(coeff, "S", <<exp.v, s.v>>),
                                                   "P", <<exp.v, p.v>>))
            ELSE IF Len(t) < 10 THEN fail("IndexError")
            ELSE LET s == FloatParen(t, 7)
                     p == FloatParen(t, 10)
                     e == FirstError(<<s, p, exp, s, exp, p>>)
                 IN IF e # "none" THEN fail(e)
                    ELSE store(e, SetDefaultAppend(SetDefaultAppend(coeff, "S", <<exp.v, s.v>>),
                                                   "P", <<exp.v, p.v>>))
       ELSE IF Len(t) = 5
            THEN LET c == FloatAt(t, 5)
                     e == FirstError(<<exp, c>>)
                 IN IF e # "none" THEN fail(e)
                    ELSE store(e, SetDefaultAppend(coeff, sym, <<exp.v, c.v>>))
            ELSE LET c == FloatParen(t, 7)
                     e == FirstError(<<c, exp>>)
                 IN IF e # "none" THEN fail(e)
                    ELSE store(e, SetDefaultAppend(coeff, sym, <<exp.v, c.v>>))

\* the statements after the rows of one shell: the error raised, or the
\* atom's gbasis with the shell appended
BasisShellOf(sym, coeff, gbasis) ==
    IF sym = <<>> THEN [e |-> "NameError", v |-> gbasis]
    ELSE IF sym[1] = "L"
    THEN IF "S" \notin DOMAIN coeff \/ "P" \notin DOMAIN coeff
         THEN [e |-> "KeyError", v |-> gbasis]
         ELSE [e |-> "none", v |-> gbasis \o << <<"S", coeff["S"]>>, <<"P", coeff["P"]>> >>]
    ELSE IF sym[1] \notin DOMAIN coeff THEN [e |-> "KeyError", v |-> gbasis]
    ELSE [e |-> "none", v |-> Append(gbasis, <<sym[1], coeff[sym[1]]>>)]

\* as ShellGap, were the gap counted from the first shell of the block
ShellGapFromStart(shellno, shellcounter) == shellno - 1

\* shellgap = shellno - shellcounter
ShellGap(shellno, shellcounter) == shellno - shellcounter

\* numtoadd = 1 + (shellgap / shellsize): the quotient is rounded down
NumToAdd(shellgap, shellsize) == 1 + (shellgap \div shellsize)

\* self.gbasis = []; line = inputfile.next()
AtomicBasisSet ==
    /\ pc = "ATOMIC BASIS SET" /\ err = "none"
    /\ self' = [self EXCEPT !.gbasis = <<>>]
    /\ has' = has \cup {"gbasis"}
    /\ \E l \in Input :
        LET g == [Fired("ATOMIC BASIS SET") EXCEPT !.basis = <<>>]
        IN IF l = EOF
           THEN StopIteration(g) /\ UNCHANGED <<nread, line>>
           ELSE /\ nread' = nread + 1
                /\ line' = l
                /\ gh' = g
                /\ pc' = "basis: find shell"
                /\ UNCHANGED err
    /\ UNCHANGED <<logkind, loc>>

\* one pass of while line.find("SHELL") < 0
BasisFindShell ==
    /\ pc = "basis: find shell" /\ err = "none"
    /\ "SHELL" \notin line.m
    /\ \E l \in Input :
        IF l = EOF
        THEN StopIteration(gh) /\ UNCHANGED <<nread, line>>
        ELSE /\ nread' = nread + 1
             /\ line' = l
             /\ UNCHANGED <<pc, err, gh>>
    /\ UNCHANGED <<logkind, self, has, loc>>

\* blank = inputfile.next()
BasisShellFound ==
    /\ pc = "basis: find shell" /\ err = "none"
    /\ "SHELL" \in line.m
    /\ \E l \in Input :
        IF l = EOF
        THEN StopIteration(gh) /\ UNCHANGED nread
        ELSE /\ nread' = nread + 1
             /\ pc' = "basis: atom name"
             /\ UNCHANGED <<err, gh>>
    /\ UNCHANGED <<logkind, line, self, has, loc>>

\* atomname = inputfile.next(); shellcounter = 1
BasisAtomName ==
    /\ pc = "basis: atom name" /\ err = "none"
    /\ \E l \in Input :
        IF l = EOF
        THEN StopIteration(gh) /\ UNCHANGED <<nread, loc>>
        ELSE /\ nread' = nread + 1
             /\ loc' = [loc EXCEPT !.shellcounter = 1]
             /\ pc' = "basis: atom"
             /\ UNCHANGED <<err, gh>>
    /\ UNCHANGED <<logkind, line, self, has>>

\* while line.find("TOTAL NUMBER") < 0: blank = inputfile.next()
BasisAtomBlank ==
    /\ pc = "basis: atom" /\ err = "none"
    /\ "TOTAL NUMBER" \notin line.m
    /\ \E l \in Input :
        IF l = EOF
        THEN StopIteration(gh) /\ UNCHANGED nread
        ELSE /\ nread' = nread + 1
             /\ pc' = "basis: first row"
             /\ UNCHANGED <<err, gh>>
    /\ UNCHANGED <<logkind, line, self, has, loc>>

\* line = inputfile.next(); shellno = int(line.split()[0]); shellgap; gbasis = []; shellsize = 0
BasisFirstRow ==
    /\ pc = "basis: first row" /\ err = "none"
    /\ \E l \in Input :
        IF l = EOF
        THEN StopIteration(gh) /\ UNCHANGED <<nread, line, loc>>
        ELSE /\ nread' = nread + 1
             /\ line' = l
             /\ gh' = gh
             /\ LET r == IF l.t = <<>> THEN [e |-> "IndexError", v |-> 0] ELSE FloatAt(l.t, 1)
                IN IF r.e # "none"
                   THEN Raise(r.e) /\ UNCHANGED loc
                   ELSE /\ loc' = [loc EXCEPT !.shellno = r.v,
                                              !.shellgap = ShellGap(r.v, loc.shellcounter),
                                              !.gbasis = <<>>,
                                              !.shellsize = 0]
                        /\ pc' = "basis: shell"
                        /\ UNCHANGED err
    /\ UNCHANGED <<logkind, self, has>>

\* while len(line.split()) != 1 and line.find("TOTAL NUMBER") < 0: shellsize += 1; coeff = {}
BasisShell ==
    /\ pc = "basis: shell" /\ err = "none"
    /\ Len(line.t) # 1 /\ "TOTAL NUMBER" \notin line.m
    /\ loc' = [loc EXCEPT !.shellsize = @ + 1, !.coeff = <<>>]
    /\ pc' = "basis: rows"
    /\ UNCHANGED <<logkind, nread, line, err, self, has, gh>>

\* one pass of while line.strip()
BasisRow ==
    /\ pc = "basis: rows" /\ err = "none"
    /\ Strip(line)
    /\ LET r == BasisRowOf(line.t, loc.coeff)
       IN IF r.e # "none"
          THEN Raise(r.e) /\ UNCHANGED <<nread, line, loc, gh>>
          ELSE \E l \in Input :
                /\ loc' = [loc EXCEPT !.sym = r.sym, !.coeff = r.coeff]
                /\ IF l = EOF
                   THEN StopIteration(gh) /\ UNCHANGED <<nread, line>>
                   ELSE /\ nread' = nread + 1
                        /\ line' = l
                        /\ UNCHANGED <<pc, err, gh>>
    /\ UNCHANGED <<logkind, self, has>>

\* the empty line after the rows: the shell is appended to the atom's gbasis
\* and line = inputfile.next()
BasisShellDone ==
    /\ pc = "basis: rows" /\ err = "none"
    /\ ~Strip(line)
    /\ LET r == BasisShellOf(loc.sym, loc.coeff, loc.gbasis)
       IN IF r.e # "none"
          THEN Raise(r.e) /\ UNCHANGED <<nread, line, loc, gh>>
          ELSE \E l \in Input :
                /\ loc' = [loc EXCEPT !.gbasis = r.v]
                /\ IF l = EOF
                   THEN StopIteration(gh) /\ UNCHANGED <<nread, line>>
                   ELSE /\ nread' = nread + 1
                        /\ line' = l
                        /\ pc' = "basis: shell"
                        /\ UNCHANGED <<err, gh>>
    /\ UNCHANGED <<logkind, self, has>>

\* the atom's description is over: numtoadd, shellcounter, and the appends
BasisAtomDone ==
    /\ pc = "basis: shell" /\ err = "none"
    /\ ~(Len(line.t) # 1 /\ "TOTAL NUMBER" \notin line.m)
    /\ IF loc.shellsize = 0
       THEN Raise("ZeroDivisionError") /\ UNCHANGED <<self, loc, gh>>
       ELSE LET numtoadd == NumToAdd(loc.shellgap, loc.shellsize)
            IN /\ self' = [self EXCEPT !.gbasis = @ \o [x \in 1..numtoadd |-> loc.gbasis]]
               /\ loc' = [loc EXCEPT !.shellcounter = loc.shellno + loc.shellsize]
               /\ gh' = [gh EXCEPT !.basis = Append(@,
                            [ shellno |-> loc.shellno, shellsize |-> loc.shellsize,
                              shellgap |-> loc.shellgap, numtoadd |-> numtoadd,
                              gbasis |-> loc.gbasis, at |-> Len(self.gbasis) ])]
               /\ pc' = "basis: atom"
               /\ UNCHANGED err
    /\ UNCHANGED <<logkind, nread, line, has>>

BasisEnd ==
    /\ pc = "basis: atom" /\ err = "none"
    /\ "TOTAL NUMBER" \in line.m
    /\ Resume("ATOMIC BASIS SET", line, self)
    /\ UNCHANGED <<logkind, nread, err, self, has, gh>>

-----------------------------------------------------------------------------
(* The CI Hamiltonian type and EXCITED STATE *)

Saps ==
    /\ pc = "SAPS" /\ err = "none"
    /\ LET s == [self EXCEPT !.cihamtyp = "saps"]
       IN self' = s /\ Resume("SAPS", line, s)
    /\ gh' = Fired("SAPS")
    /\ UNCHANGED <<logkind, nread, err, has>>

Dets ==
    /\ pc = "DETS" /\ err = "none"
    /\ LET s == [self EXCEPT !.cihamtyp = "dets"]
       IN self' = s /\ Resume("DETS", line, s)
    /\ gh' = Fired("DETS")
    /\ UNCHANGED <<logkind, nread, err, has>>

\* the statements of the trigger line: the error raised, or the label stored
EtsymOf(t) ==
    LET statenumber == FloatAt(t, 3)
        spin == FloatAt(t, 8)
    IN IF statenumber.e # "none" THEN [e |-> statenumber.e, v |-> ""]
       ELSE IF spin.e # "none" THEN [e |-> spin.e, v |-> ""]
       ELSE IF spin.v = 0 THEN [e |-> "none", v |-> "Singlet-" \o Last(t).k]
       ELSE IF spin.v = 1 THEN [e |-> "none", v |-> "Triplet-" \o Last(t).k]
       ELSE [e |-> "NameError", v |-> ""]

ExcitedState ==
    /\ pc = "EXCITED STATE" /\ err = "none"
    /\ has' = has \cup {"etsecs", "etsyms"}
    /\ LET r == EtsymOf(line.t)
       IN IF r.e # "none"
          THEN Raise(r.e) /\ UNCHANGED <<self, loc>>
          ELSE /\ self' = [self EXCEPT !.etsyms = Append(@, r.v)]
               /\ loc' = [loc EXCEPT !.skipped = 0]
               /\ pc' = "excited state: skip"
               /\ UNCHANGED err
    /\ gh' = [Fired("EXCITED STATE") EXCEPT !.cisrows = <<>>]
    /\ UNCHANGED <<logkind, nread, line>>

\* for i in range(5): line = inputfile.next(); then line = inputfile.next()
\* and CIScontribs = []
ExcitedStateSkip ==
    /\ pc = "excited state: skip" /\ err = "none"
    /\ \E l \in Input :
        IF l = EOF
        THEN StopIteration(gh) /\ UNCHANGED <<nread, line, loc>>
        ELSE /\ nread' = nread + 1
             /\ line' = l
             /\ loc' = [loc EXCEPT !.skipped = IF @ = 5 THEN 0 ELSE @ + 1,
                                   !.CIScontribs = <<>>]
             /\ pc' = IF loc.skipped = 5 THEN "excited state: while" ELSE pc
             /\ UNCHANGED <<err, gh>>
    /\ UNCHANGED <<logkind, self, has>>

\* line.strip()[0] == "-" for a line that is not empty
StartsWithDash(ln) == ln.t[1].k = "-----" \/ (IsNum(ln.t[1]) /\ ln.t[1].v < 0)

\* int(line.split()[-i]) or float(line.split()[-i])
FromEnd(t, i) ==
    IF i > Len(t) THEN [e |-> "IndexError", v |-> 0] ELSE FloatAt(t, Len(t) + 1 - i)

\* as MOtypeOf, without the test of the Hamiltonian type
MOtypeOfLabel(cihamtyp, t) == IF t[1].k = "BETA" THEN 1 ELSE 0

\* MOtype: 1 for a BETA row of a determinant-based run, else 0
MOtypeOf(cihamtyp, t) == IF cihamtyp = "dets" /\ t[1].k = "BETA" THEN 1 ELSE 0

\* as CoeffOf, scaling whatever the Hamiltonian type
CoeffOfScaled(cihamtyp, c) == [num |-> c, bysqrt2 |-> c # 0]

\* coeff as stored, a floating-point number num or num / sqrt(2): divided by
\* sqrt(2) with the SAPS hamiltonian
CoeffOf(cihamtyp, c) ==
    LET Real(num) == [num |-> num, bysqrt2 |-> FALSE]
        \* coeff /= numpy.sqrt(2.0)
        DivSqrt2(x) == IF x.num = 0 THEN x ELSE [x EXCEPT !.bysqrt2 = TRUE]
    IN IF cihamtyp = "saps" THEN DivSqrt2(Real(c)) ELSE Real(c)

\* the body of the loop for the row t: the error raised, or the contribution
CIScontribOf(cihamtyp, t) ==
    LET MOtype == MOtypeOf(cihamtyp, t)
        fromMO == FromEnd(t, 3)
        toMO == FromEnd(t, 2)
        coeff == FromEnd(t, 1)
        e == FirstError(<<fromMO, toMO, coeff>>)
    IN [e |-> e,
        v |-> << <<fromMO.v - 1, MOtype>>, <<toMO.v - 1, MOtype>>, CoeffOf(cihamtyp, coeff.v) >>]

\* one pass of while line.strip()[0] != "-"
ExcitedStateRow ==
    /\ pc = "excited state: while" /\ err = "none"
    /\ IF line.t = <<>>
       THEN Raise("IndexError") /\ UNCHANGED <<nread, line, loc, gh>>
       ELSE /\ ~StartsWithDash(line)
            /\ LET r == CIScontribOf(self.cihamtyp, line.t)
                   g == [gh EXCEPT !.cisrows = Append(@,
                            [cihamtyp |-> self.cihamtyp, t |-> line.t])]
               IN IF r.e # "none"
                  THEN Raise(r.e) /\ UNCHANGED <<nread, line, loc, gh>>
                  ELSE \E l \in Input :
                        /\ loc' = [loc EXCEPT !.CIScontribs = Append(@, r.v)]
                        /\ IF l = EOF
                           THEN StopIteration(g) /\ UNCHANGED <<nread, line>>
                           ELSE /\ nread' = nread + 1
                                /\ line' = l
                                /\ gh' = g
                                /\ UNCHANGED <<pc, err>>
    /\ UNCHANGED <<logkind, self, has>>

\* the line of dashes: self.etsecs.append(CIScontribs)
ExcitedStateEnd ==
    /\ pc = "excited state: while" /\ err = "none"
    /\ line.t # <<>> /\ StartsWithDash(line)
    /\ LET s == [self EXCEPT !.etsecs = Append(@, loc.CIScontribs)]
       IN self' = s /\ Resume("EXCITED STATE", line, s)
    /\ gh' = [gh EXCEPT !.etrows = Append(@, gh.cisrows)]
    /\ UNCHANGED <<logkind, nread, err, has>>

-----------------------------------------------------------------------------
(* The parse *)

Next ==
    \/ Driver
    \/ Opttol
    \/ Final
    \/ MaximumGradient
    \/ CcdEnergy
    \/ CcsdEnergy
    \/ CcsdAfterT
    \/ MbptEnergy
    \/ EquilibriumGeometryLocated
    \/ ScfCalculation
    \/ ScfHeader
    \/ ScfIterEx
    \/ ScfTableRow
    \/ ScfTableEnd
    \/ NumberOfBasisFunctions
    \/ SphericalHarmonicsKept
    \/ TotalNumberOfMos
    \/ OverlapMatrix
    \/ OverlapBandHeader
    \/ OverlapRow
    \/ NormalCoordinateAnalysis
    \/ VibFindModes
    \/ VibModes
    \/ VibModesLine
    \/ VibFrequencies
    \/ VibUntilBlank
    \/ VibAtBlank
    \/ VibFrequencyRow
    \/ VibIrRow
    \/ VibRamanRow
    \/ VibDepolarization
    \/ VibAfterDepolarization
    \/ VibDisplacementRow
    \/ VibDisplacementsEnd
    \/ VibSayvetz
    \/ VibBlank
    \/ VibFreqNo
    \/ VibExcludeRotations
    \/ MollerPlesset
    \/ MpEnergyRow
    \/ MpDone
    \/ ChargeOfMolecule
    \/ ExcitationEnergies
    \/ EtHeader
    \/ EtRow
    \/ EtEnd
    \/ EcpPotentials
    \/ EcpPreamble
    \/ EcpParameters
    \/ EcpParametersLine
    \/ EcpNextHeader
    \/ EcpEnd
    \/ AtomicBasisSet
    \/ BasisFindShell
    \/ BasisShellFound
    \/ BasisAtomName
    \/ BasisAtomBlank
    \/ BasisFirstRow
    \/ BasisShell
    \/ BasisRow
    \/ BasisShellDone
    \/ BasisAtomDone
    \/ BasisEnd
    \/ Saps
    \/ Dets
    \/ ExcitedState
    \/ ExcitedStateSkip
    \/ ExcitedStateRow
    \/ ExcitedStateEnd
    \/ TotalNumberOfAtoms
    \/ AtomicCoordinates
    \/ AtomicCoordinatesFirst
    \/ AtomicCoordinatesRow
    \/ AtomicCoordinatesEnd
    \/ CoordinatesOfAllAtoms
    \/ CoordinatesOfAllAtomsHyphens
    \/ CoordinatesOfAllAtomsFirst
    \/ CoordinatesOfAllAtomsRow
    \/ CoordinatesOfAllAtomsEnd
    \/ NumberOfOccupiedOrbitals
    \/ SymmetriesForInitialGuess
    \/ Eigenvectors
    \/ MoHeader
    \/ MoRow
    \/ MoAfterAlpha
    \/ MoBetaSkip
    \/ MoAfterBeta

Spec == Init /\ [][Next]_vars

\* the parse is a sequential program: it takes its next step as long as it
\* has one
LiveSpec == Spec /\ WF_vars(Next)

-----------------------------------------------------------------------------
(* normalisesym, called on its own *)

\* the labels of up to MaxLabel characters
Labels ==
    LET LabelChars == { "A", "U", "G", "1", "'", "u" }
    IN UNION { [1..n -> LabelChars] : n \in 0..MaxLabel }

NormalisesymInit ==
    /\ logkind = "normalisesym"
    /\ nread = 0
    /\ line = NoLine
    /\ pc = "normalisesym"
    /\ err = "none"
    /\ self = SelfInit
    /\ has = {}
    /\ loc \in { [LocInit EXCEPT !.label = l] : l \in Labels }
    /\ gh = GhInit

\* t(label): label[0] raises IndexError for the empty string
Normalisesym ==
    /\ pc = "normalisesym" /\ err = "none"
    /\ IF loc.label = <<>>
       THEN Raise("IndexError") /\ UNCHANGED loc
       ELSE /\ loc' = [loc EXCEPT !.answer = normalisesym(loc.label)]
            /\ pc' = "returned"
            /\ UNCHANGED err
    /\ UNCHANGED <<logkind, nread, line, self, has, gh>>

NormalisesymSpec == NormalisesymInit /\ [][Normalisesym]_vars

TypeOK ==
    /\ pc \in {"driver", "done"} => line = NoLine
    /\ nread <= MaxLines(logkind)

-----------------------------------------------------------------------------
(* Properties *)

Range(f) == { f[i] : i \in DOMAIN f }
IsPrefix(a, b) == Len(a) <= Len(b) /\ \A i \in DOMAIN a : a[i] = b[i]
AtRest == pc \in {"driver", "done"} /\ err = "none"

\* the triggers that obtain no line from inputfile
NonReading ==
    { "OPTTOL", "FINAL", "CCD ENERGY:", "MBPT(2) ENERGY:", "SAPS", "DETS",
      "MAXIMUM GRADIENT", "EQUILIBRIUM GEOMETRY LOCATED",
      "SYMMETRIES FOR INITIAL GUESS ORBITALS FOLLOW", "TOTAL NUMBER OF ATOMS",
      "NUMBER OF BASIS FUNCTIONS", "SPHERICAL HARMONICS KEPT",
      "TOTAL NUMBER OF MOS IN VARIATION SPACE" }

\* the triggers whose condition the line ln meets, in source order; of the
\* elif chain only the first
MatchingTriggers(ln) ==
    SelectSeq(Triggers,
        LAMBDA n : /\ Matches(n, ln, self)
                   /\ n \in ElifChain =>
                        \A k \in 1..(TriggerIndex(n) - 1) :
                            Triggers[k] \in ElifChain => ~Matches(Triggers[k], ln, self))

\* C1 as claimed: for every line handed to extract at most one trigger's
\* sub-parser fires.
C1_AtMostOneTriggerFires == Len(gh.fired) <= 1

\* C1 amended: when extract returns and no fired sub-parser has read a
\* further line, every trigger the handed line matches has fired, in source
\* order (of the elif chain only the first).
C1_EveryMatchingTriggerFires ==
    (AtRest /\ gh.handed # NoLine /\ Range(gh.fired) \subseteq NonReading)
        => gh.fired = MatchingTriggers(gh.handed)

C1_Witness ==
    /\ AtRest /\ Len(gh.fired) = 2 /\ Range(gh.fired) \subseteq NonReading
    /\ self.scfenergies # <<>> /\ "geotargets" \in has

\* C2 as claimed: once a standard-orientation geometry is in atomcoords, no
\* input-orientation geometry is, whatever the order of the blocks.
C2_NoInputGeometryOnceStd ==
    "std" \in Range(gh.origin) => "input" \notin Range(gh.origin)

\* C2 amended: if no input-orientation block was dispatched after the first
\* standard-orientation block, atomcoords holds no input-orientation geometry
\* once the first standard-orientation block has been dispatched; atomcoords
\* loses elements only in the step that clears firststdorient.
C2_InputGeometriesBeforeStdDiscarded ==
    /\ [](~self.firststdorient /\ ~gh.lateinput => "input" \notin Range(gh.origin))
    /\ [][~IsPrefix(self.atomcoords, self'.atomcoords)
            => self.firststdorient /\ ~self'.firststdorient]_vars

C2_Witness ==
    /\ AtRest /\ ~gh.lateinput /\ gh.origin = <<"std">>
    /\ 1 \in gh.rowcounts /\ "atomnos" \in has

\* C3: once geooptfinished is set it stays set, and from then on no step
\* removes a geometry from atomcoords or adds a standard-orientation one.
C3_NoStdGeometryAfterEquilibrium ==
    [][self.geooptfinished =>
        /\ self'.geooptfinished
        /\ IsPrefix(self.atomcoords, self'.atomcoords)
        /\ IsPrefix(gh.origin, gh'.origin)
        /\ \A i \in (Len(gh.origin) + 1)..Len(gh'.origin) : gh'.origin[i] # "std"]_vars

C3_Witness ==
    /\ AtRest /\ self.geooptfinished /\ gh.handed = StdCoordsLine
    /\ "std" \in Range(gh.origin)

\* C4 as claimed: every stored geometry has natom entries and
\* len(atomnos) == natom, once known, after any sequence of blocks.
C4_GeometriesHaveNatomEntries ==
    (AtRest /\ "natom" \in has) =>
        /\ \A i \in DOMAIN self.atomcoords : Len(self.atomcoords[i]) = self.natom
        /\ "atomnos" \in has => Len(self.atomnos) = self.natom

\* C4 amended: if every coordinate block read so far had the same number k
\* of rows and every TOTAL NUMBER OF ATOMS line gave k, every stored
\* geometry has natom entries and len(atomnos) == natom.
C4_ConsistentLogHasNatomEntries ==
    (AtRest /\ "natom" \in has /\ Cardinality(gh.rowcounts \cup gh.natoms) <= 1) =>
        /\ \A i \in DOMAIN self.atomcoords : Len(self.atomcoords[i]) = self.natom
        /\ "atomnos" \in has => Len(self.atomnos) = self.natom

C4_Witness ==
    /\ AtRest /\ "natom" \in has /\ gh.rowcounts = {1} /\ gh.natoms = {1}
    /\ Len(self.atomcoords) = 2 /\ Len(self.atomnos) = 1

\* the CCSD cascade of this extract call has appended its value
CcsdDone ==
    /\ err = "none" /\ "CCSD    ENERGY:" \in Range(gh.fired)
    /\ pc \notin {"CCSD    ENERGY:", "ccsd: after CCSD[T]"}

IsCc(ln, level) == level \in ln.m

\* C5: after a CCSD line followed by a CCSD[T] line and then a CCSD(T) line,
\* ccenergies has exactly one entry more than before, the CCSD(T) value in eV.
C5_CascadeRecordsCcsdPT ==
    (/\ CcsdDone /\ Len(gh.cclines) = 3
     /\ IsCc(gh.cclines[2], "CCSD[T] ENERGY:") /\ IsCc(gh.cclines[3], "CCSD(T) ENERGY:"))
        => /\ Len(self.ccenergies) = gh.ccbefore + 1
           /\ Last(self.ccenergies) = convertor(gh.cclines[3].t[3].v, "hartree", "eV")
           /\ Last(self.ccenergies) # convertor(gh.cclines[1].t[3].v, "hartree", "eV")
           /\ Last(self.ccenergies) # convertor(gh.cclines[2].t[3].v, "hartree", "eV")

C5_Witness ==
    /\ CcsdDone /\ gh.cclines = <<CcsdLine(1), CcsdTLine(2), CcsdPTLine(3)>>
    /\ Len(self.ccenergies) = 2

\* the last coupled-cluster line among the CCSD line and the optional
\* CCSD[T] and CCSD(T) lines that follow it
LastCcLine(lines) ==
    IF Len(lines) >= 3 /\ IsCc(lines[2], "CCSD[T] ENERGY:") /\ IsCc(lines[3], "CCSD(T) ENERGY:")
    THEN lines[3]
    ELSE IF IsCc(lines[2], "CCSD[T] ENERGY:") \/ IsCc(lines[2], "CCSD(T) ENERGY:")
    THEN lines[2]
    ELSE lines[1]

\* C6: whichever of the CCSD[T] and CCSD(T) lines follow the CCSD line, the
\* one value appended is that of the last coupled-cluster line present.
C6_LastCoupledClusterLineWins ==
    CcsdDone =>
        /\ Len(self.ccenergies) = gh.ccbefore + 1
        /\ Last(self.ccenergies) = convertor(LastCcLine(gh.cclines).t[3].v, "hartree", "eV")

ScfPlaces == { "SCF CALCULATION", "scf: header", "scf: table" }

\* C9: when the stream is found exhausted inside an SCF block, the parse has
\* failed with StopIteration and scfvalues has no entry for that block.
C9_TruncatedScfTableFails ==
    gh.eofat \in ScfPlaces =>
        /\ err = "StopIteration"
        /\ pc = gh.eofat
        /\ Len(self.scfvalues) = gh.scfbefore

C9_Witness ==
    /\ gh.eofat = "scf: table" /\ Len(loc.values) = 2 /\ err = "StopIteration"
    /\ Len(self.scftargets) = 1 /\ self.scfvalues = <<>>

\* C8: in every state, also inside an overlap block and after one has
\* failed, aooverlaps is symmetric.
C8_OverlapSymmetric ==
    \A i \in DOMAIN self.aooverlaps : \A j \in DOMAIN self.aooverlaps :
        self.aooverlaps[i][j] = self.aooverlaps[j][i]

C8_Witness ==
    /\ AtRest /\ "OVERLAP MATRIX" \in Range(gh.fired)
    /\ self.nbasis = 6 /\ self.aooverlaps[5][5] # 0 /\ self.aooverlaps[0][1] # 0

C8_WitnessInterrupted ==
    /\ pc = "overlap: row" /\ err = "ValueError"
    /\ self.aooverlaps[0][1] # 0 /\ self.aooverlaps[1][0] # 0


-----------------------------------------------------------------------------
\* the lengths of the vibrational attributes that exist
VibLengths == { Len(self.vibfreqs), Len(self.vibirs), Len(self.vibdisps) }
    \cup (IF "vibramans" \in has THEN {Len(self.vibramans.v)} ELSE {})

\* C7: after every completed vibrational-analysis block vibfreqs, vibirs,
\* vibdisps and, if present, vibramans have the same length: the number of
\* modes read in the block less the endrot - startrot + 1 excluded ones
C7_VibAttributesSameLength ==
    (gh.vibblocks > 0 /\ pc \notin VibPlaces /\ pc # "NORMAL COORDINATE ANALYSIS") =>
        VibLengths = { gh.vibmodes - (gh.vibrot[2] - gh.vibrot[1] + 1) }

\* C7 for the first block of a parse, where vibramans is still the list that
\* line 410 created: the four attributes have the length claimed
C7_FirstBlock ==
    (gh.vibblocks = 1 /\ pc \notin VibPlaces /\ pc # "NORMAL COORDINATE ANALYSIS") =>
        VibLengths = { gh.vibmodes - (gh.vibrot[2] - gh.vibrot[1] + 1) }

-----------------------------------------------------------------------------
\* the parse is over: the driver found the stream exhausted, or an exception
\* left extract
Ended == pc = "done" \/ err # "none"

\* the places of the loop over the groups of columns of a vibrational block
VibGroupPlaces ==
    { "vib: group", "vib: ir", "vib: ir after reduced mass", "vib: raman",
      "vib: depolarization", "vib: after depolarization", "vib: displacements",
      "vib: sayvetz", "vib: blank", "vib: freqNo" }

\* the places of the loop over the PARAMETERS headers of an ECP block
EcpHeaderPlaces == { "ecp: header", "ecp: parameters" }

\* the parse is inside a loop that looks for a terminator line, and the line
\* the loop tests is not that terminator: the empty line after the coordinate
\* rows, the SCF table, the excitation energies or an atom's ECP parameters,
\* ITER EX, MODES, the line equal to blank, SAYVETZ, DONE WITH MPn ENERGY,
\* a header that is not a PARAMETERS line
Unterminated ==
    \/ /\ pc \in { "atomic coordinates: while", "coordinates of all atoms: while",
                   "scf: table" }
       /\ Strip(line)
    \/ pc = "scf: header" /\ "ITER EX" \notin line.m
    \/ pc = "vib: modes" /\ "MODES" \notin line.m
    \/ pc = "vib: until blank" /\ line # loc.blank
    \/ pc \in VibGroupPlaces /\ "SAYVETZ" \notin loc.freqNo.m
    \/ pc = "mp: while" /\ DoneWith(loc.mplevel) \notin line.m
    \/ pc \in {"et: while", "ecp: parameters"} /\ Strip(line)
    \/ /\ pc \in EcpHeaderPlaces
       /\ loc.header.t # <<>> /\ loc.header.t[1].k = "PARAMETERS"

SameLoop(a, b) ==
    \/ a = b
    \/ a \in VibGroupPlaces /\ b \in VibGroupPlaces
    \/ a \in EcpHeaderPlaces /\ b \in EcpHeaderPlaces

\* a step that stays at its place in a sub-parser is one pass of a loop that
\* reads lines
LoopPassAdvances ==
    (pc \notin {"driver", "done"} /\ pc' = pc /\ err' = "none") => nread' = nread + 1

\* a loop is left only at its terminator or by an exception
LoopEndsAtTerminator == (Unterminated /\ err' = "none") => SameLoop(pc, pc')

\* C10 as claimed: the parse terminates, every pass of a loop advances the
\* scanner, and a parse that ends inside a loop whose terminator line did not
\* appear has ended with the stream-exhaustion failure.
C10_UnterminatedBlockExhaustsStream ==
    /\ <>Ended
    /\ [][LoopPassAdvances]_vars
    /\ [][LoopEndsAtTerminator]_vars
    /\ [](Ended /\ Unterminated => err = "StopIteration")

\* C10, amended: the parse terminates, every pass of a line-reading loop
\* advances the scanner, a loop is left only at its terminator line or by a
\* failure of the whole parse, and a stream found exhausted inside a
\* sub-parser ends the parse there with the stream-exhaustion failure.
C10_ParseTerminates ==
    /\ <>Ended
    /\ [][LoopPassAdvances]_vars
    /\ [][LoopEndsAtTerminator]_vars
    /\ [](gh.eofat \notin {"", "driver"} =>
            err = "StopIteration" /\ pc = gh.eofat /\ pc # "done")

\* the stream ends inside a loop that was looking for its terminator line
C10_Witness ==
    /\ Unterminated
    /\ err = "StopIteration"
    /\ pc = gh.eofat

-----------------------------------------------------------------------------
(* C11: shell sharing in the basis-set block *)

\* the first description of the block starts at shell index 1 and has three
\* shells, and the second one starts at shell index 4
ContiguousAtoms ==
    /\ "gbasis" \in has
    /\ Len(gh.basis) >= 2
    /\ gh.basis[1].shellno = 1 /\ gh.basis[1].shellsize = 3
    /\ gh.basis[2].shellno = 4

\* C11 as claimed: with atom 1 at shell index 1 (shellsize 3) and atom 2 at
\* shell index 4, shellgap is 3, numtoadd is 2, and gbasis holds atom 1's
\* description twice before atom 2's own.
C11_FirstAtomReplicated ==
    ContiguousAtoms =>
        /\ gh.basis[2].shellgap = 3 /\ gh.basis[2].numtoadd = 2
        /\ Len(self.gbasis) >= 3
        /\ self.gbasis[1] = gh.basis[1].gbasis
        /\ self.gbasis[2] = gh.basis[1].gbasis
        /\ self.gbasis[3] = gh.basis[2].gbasis

\* C11, amended: in that scenario shellgap is 0 and numtoadd is 1 for both
\* atoms and gbasis holds each description once; in general shellgap is the
\* first shell index of a description minus the index that follows the shells
\* of the description before it (1 for the first), numtoadd is
\* 1 + shellgap / shellsize rounded down, and it is the description itself
\* that is appended numtoadd times.
C11_ContiguousShellsAppendedOnce ==
    /\ ContiguousAtoms =>
        /\ \A i \in 1..2 : gh.basis[i].shellgap = 0 /\ gh.basis[i].numtoadd = 1
        /\ self.gbasis[1] = gh.basis[1].gbasis
        /\ self.gbasis[2] = gh.basis[2].gbasis
        /\ self.gbasis[1] # self.gbasis[2]
    /\ "gbasis" \in has =>
        \A i \in DOMAIN gh.basis :
            LET b == gh.basis[i]
                free == IF i = 1 THEN 1
                        ELSE gh.basis[i-1].shellno + gh.basis[i-1].shellsize
            IN /\ b.shellgap = b.shellno - free
               /\ b.numtoadd = 1 + (b.shellgap \div b.shellsize)
               /\ b.at = (IF i = 1 THEN 0 ELSE gh.basis[i-1].at + gh.basis[i-1].numtoadd)
               /\ \A k \in 1..b.numtoadd : self.gbasis[b.at + k] = b.gbasis
               /\ i = Len(gh.basis) => Len(self.gbasis) = b.at + b.numtoadd

\* both descriptions of the scenario have been stored
C11_Witness ==
    /\ ContiguousAtoms
    /\ err = "none"
    /\ Len(self.gbasis) = 2

-----------------------------------------------------------------------------
(* C12, C13: the contributions stored in etsecs *)

\* the contributions stored, each with the row it was read from and the
\* Hamiltonian type at that moment
Contributions ==
    UNION { { [c |-> self.etsecs[i][j], row |-> gh.etrows[i][j]] : j \in DOMAIN self.etsecs[i] } :
            i \in DOMAIN self.etsecs }

RawCoeff(x) == Last(x.row.t).v

\* raw / sqrt(2), and raw itself, as floating-point numbers
OverSqrt2(raw) == [num |-> raw, bysqrt2 |-> raw # 0]
Unscaled(raw) == [num |-> raw, bysqrt2 |-> FALSE]

\* C12 as claimed: at the end of a parse whose Hamiltonian type is SAPS every
\* stored coefficient is the raw value over sqrt(2), and at the end of any
\* other parse every stored coefficient is the raw value, wherever the marker
\* line stood.
C12_ScalingFollowsTypeOfParse ==
    (pc = "done" /\ err = "none") =>
        \A x \in Contributions :
            x.c[3] = IF self.cihamtyp = "saps" THEN OverSqrt2(RawCoeff(x))
                     ELSE Unscaled(RawCoeff(x))

\* C12, amended: a stored coefficient is the raw value over sqrt(2) when the
\* Hamiltonian type was SAPS at the moment its row was read, and the raw value
\* otherwise; so the claim holds for the blocks read after the last marker
\* line of the parse.
C12_ScalingFollowsTypeAtRow ==
    /\ Len(gh.etrows) = Len(self.etsecs)
    /\ \A i \in DOMAIN self.etsecs : Len(gh.etrows[i]) = Len(self.etsecs[i])
    /\ \A x \in Contributions :
        /\ x.c[3] = IF x.row.cihamtyp = "saps" THEN OverSqrt2(RawCoeff(x))
                    ELSE Unscaled(RawCoeff(x))
        /\ x.row.cihamtyp = self.cihamtyp =>
              x.c[3] = IF self.cihamtyp = "saps" THEN OverSqrt2(RawCoeff(x))
                       ELSE Unscaled(RawCoeff(x))

\* a SAPS parse has ended with a block read before the marker line and a
\* block read after it
C12_Witness ==
    /\ pc = "done" /\ err = "none" /\ self.cihamtyp = "saps"
    /\ \E x, y \in Contributions :
        /\ x.row.cihamtyp = "none" /\ y.row.cihamtyp = "saps"
        /\ RawCoeff(x) # 0 /\ RawCoeff(y) # 0

\* C13: the two orbitals of a contribution carry the same spin channel, which
\* is 1 exactly for a BETA row read while the Hamiltonian type was DETS and 0
\* otherwise, and the indices stored are the row's indices minus 1.
C13_SpinChannelAndIndices ==
    \A x \in Contributions :
        LET t == x.row.t
        IN /\ x.c[1][2] = x.c[2][2]
           /\ x.c[1][2] = (IF x.row.cihamtyp = "dets" /\ t[1].k = "BETA" THEN 1 ELSE 0)
           /\ x.c[1][1] = t[Len(t) - 2].v - 1
           /\ x.c[2][1] = t[Len(t) - 1].v - 1

\* BETA rows have been stored with channel 1 (DETS) and with channel 0 (not DETS)
C13_Witness ==
    \E x, y \in Contributions :
        /\ x.row.t[1].k = "BETA" /\ y.row.t[1].k = "BETA"
        /\ x.row.cihamtyp = "dets" /\ y.row.cihamtyp # "dets"
        /\ x.c[1][2] = 1 /\ y.c[1][2] = 0

-----------------------------------------------------------------------------
(* C14: the FINAL energy line *)

\* the token after the first token IS of line ln is a number
HasEnergyAfterIs(ln) ==
    LET i == IndexOf(ln.t, "IS")
    IN i # 0 /\ i + 1 <= Len(ln.t) /\ IsNum(ln.t[i + 1])

EnergyAfterIs(ln) == ln.t[IndexOf(ln.t, "IS") + 1].v * 27211

\* the FINAL trigger appends exactly the conversion of the token after IS
\* and obtains no line
FinalAppendsOne ==
    (pc = "FINAL" /\ err = "none") =>
        /\ err' = "none"
        /\ self'.scfenergies = Append(self.scfenergies, EnergyAfterIs(line))
        /\ nread' = nread

\* the FINAL trigger fails the parse, storing nothing and obtaining no line
FinalFails ==
    /\ err' \in {"ValueError", "IndexError"}
    /\ self'.scfenergies = self.scfenergies
    /\ nread' = nread

\* a parse has ended normally and the FINAL trigger ran for one line only
OneFinalLine == pc = "done" /\ err = "none" /\ Len(gh.finals) = 1

\* C14 as claimed: every line dispatched with FINAL at offset 1 appends
\* exactly one value, the conversion of the token after IS, and obtains no
\* further line; a log with one such line yields a one-element scfenergies.
C14_EveryFinalLineAppends ==
    /\ [][FinalAppendsOne]_vars
    /\ [](OneFinalLine => self.scfenergies = <<EnergyAfterIs(gh.finals[1])>>)

\* C14, amended: a line dispatched with FINAL at offset 1 whose token after
\* the first IS is a number appends exactly the conversion of that token and
\* obtains no line; one without the token IS, or without a number after it,
\* fails the parse and stores nothing; a parse that ends normally with one
\* such line has a one-element scfenergies.
C14_FinalLineWithEnergyAppends ==
    /\ [][(pc = "FINAL" /\ err = "none") =>
            IF HasEnergyAfterIs(line) THEN FinalAppendsOne ELSE FinalFails]_vars
    /\ [](OneFinalLine => self.scfenergies = <<EnergyAfterIs(gh.finals[1])>>)
    /\ [](err = "none" => Len(self.scfenergies) = Len(gh.finals))

\* the log with the one line FINAL R-B3LYP ENERGY IS v AFTER 10 ITERATIONS
C14_Witness ==
    /\ OneFinalLine
    /\ gh.finals[1].t[2].k = "R-B3LYP"
    /\ self.scfenergies = <<2 * 27211>>

-----------------------------------------------------------------------------
(* C15: normalisesym *)

-----------------------------------------------------------------------------
(* C16: the rows of the SCF iteration table *)

\* the parse is at a row of the table, and the stream does not end there
AtScfRow == pc = "scf: table" /\ err = "none" /\ Strip(line) /\ err' # "StopIteration"

IntField04(ln) == "int(line[0:4])" \in ln.m
SixthColumn(ln) == Len(ln.t) >= 6 /\ IsNum(ln.t[6])

\* a row without an integer in line[0:4] is skipped without error
ScfRowSkipped ==
    (AtScfRow /\ ~IntField04(line)) => err' = "none" /\ loc'.values = loc.values

\* the entries of scfvalues: one is appended at the empty line that ends a
\* table, and nowhere else
ScfValuesEntry ==
    /\ (pc = "scf: table" /\ err = "none" /\ ~Strip(line)) =>
            self'.scfvalues = Append(self.scfvalues, loc.values) /\ pc' # "scf: table"
    /\ self'.scfvalues # self.scfvalues => pc = "scf: table" /\ ~Strip(line)

\* C16 as claimed: a row without an integer in its leading field is skipped
\* without error, every row with one adds exactly one one-element value, and
\* one entry is appended to scfvalues at the first empty line.
C16_EveryNumberedRowAddsValue ==
    /\ [][ScfRowSkipped]_vars
    /\ [][(AtScfRow /\ IntField04(line)) =>
            err' = "none" /\ Len(loc'.values) = Len(loc.values) + 1 /\ Len(Last(loc'.values)) = 1]_vars
    /\ [][ScfValuesEntry]_vars

\* C16, amended: a row without an integer in its leading field is skipped
\* without error; a row with one adds the one-element value of its sixth
\* column when that column exists and is a number, and fails the parse
\* otherwise; one entry, the accumulated list, is appended to scfvalues at the
\* first empty line, so a block that fails or runs out of lines adds none.
C16_NumberedRowWithSixthColumnAddsValue ==
    /\ [][ScfRowSkipped]_vars
    /\ [][(AtScfRow /\ IntField04(line)) =>
            IF SixthColumn(line)
            THEN err' = "none" /\ loc'.values = Append(loc.values, <<line.t[6].v>>)
            ELSE err' \in {"IndexError", "ValueError"} /\ self'.scfvalues = self.scfvalues]_vars
    /\ [][ScfValuesEntry]_vars
    /\ [](pc \in {"scf: header", "scf: table"} => Len(self.scfvalues) = gh.scfbefore)

\* a table with a skipped row and a row that added its value has ended
C16_Witness ==
    /\ pc = "driver" /\ err = "none"
    /\ Len(self.scfvalues) = 1 /\ Len(self.scfvalues[1]) = 1
    /\ \E i, j \in DOMAIN gh.scfrows :
            ~IntField04(gh.scfrows[i]) /\ IntField04(gh.scfrows[j])

-----------------------------------------------------------------------------
(* C17: PARAMETERS headers with a field that is not a number *)

\* the parse is at a PARAMETERS header of an ECP block one of whose integer
\* fields (atom number, core-electron count, referenced atom) does not parse
AtBadParameters ==
    /\ pc = "ecp: header" /\ err = "none"
    /\ loc.header.t # <<>> /\ loc.header.t[1].k = "PARAMETERS"
    /\ \/ ~IsNum(loc.header.t[2])
       \/ /\ loc.header.m \cap {"WITH ZCORE", "ARE THE SAME AS"} # {}
          /\ ~IsNum(loc.header.t[3])

\* C17 as claimed: such a header is treated as noise: the parse does not
\* fail, coreelectrons is unchanged and the scan of the block continues.
C17_BadParametersSkipped ==
    [][AtBadParameters =>
        /\ err' \in {"none", "StopIteration"}
        /\ self'.coreelectrons = self.coreelectrons
        /\ pc' \in EcpHeaderPlaces]_vars

\* C17, amended: such a header fails the whole parse with a value error;
\* coreelectrons is left as it was and no further line is obtained.
C17_BadParametersFailParse ==
    [][AtBadParameters =>
        /\ err' = "ValueError"
        /\ self'.coreelectrons = self.coreelectrons
        /\ nread' = nread]_vars

\* the parse has failed at a header whose referenced atom is not a number,
\* after a header that set a core-electron count
C17_Witness ==
    /\ pc = "ecp: header" /\ err = "ValueError"
    /\ "ARE THE SAME AS" \in loc.header.m /\ ~IsNum(loc.header.t[3])
    /\ self.coreelectrons = <<10, 0>>

-----------------------------------------------------------------------------
(* C18: mpenergies *)

\* the value of a row of a Moller-Plesset block that names an energy and
\* carries its number: "E(MP2)= v", "E(MP2) = v", "E(MP3) = v", "E(MP4-SDQ) = v"
MpRecognised(l) ==
    IF Len(l.t) >= 2 /\ l.t[1].k = "E(MP2)=" /\ IsNum(l.t[2])
    THEN <<l.t[2].v>>
    ELSE IF /\ Len(l.t) >= 3 /\ IsNum(l.t[3])
            /\ l.t[1].k \in {"E(MP2)", "E(MP3)", "E(MP4-SDQ)", "E(MP4-SDTQ)"}
         THEN <<l.t[3].v>>
         ELSE <<>>

\* the entries of mpenergies before the last one are left as they were
EarlierEntriesKept ==
    /\ Len(self'.mpenergies) >= Len(self.mpenergies)
    /\ \A i \in 1..(Len(self.mpenergies) - 1) : self'.mpenergies[i] = self.mpenergies[i]

-----------------------------------------------------------------------------
(* C19: homos *)

\* the last integer of a line, less one
LastIntLessOne(ln) == ln.t[Len(ln.t)].v - 1

\* what the two triggers do to homos, and that nothing else touches it: a
\* NUMBER OF OCCUPIED ORBITALS line that is gone through without an error sets
\* it to that line's and the next line's last integer, each less one; a
\* SYMMETRIES FOR INITIAL GUESS ORBITALS FOLLOW line gone through without an
\* error keeps its first entry only when it holds BOTH SET(S), and leaves it
\* as it is otherwise
HomosSteps ==
    /\ pc = "NUMBER OF OCCUPIED ORBITALS" /\ err = "none" /\ err' = "none" =>
            /\ nread' = nread + 1
            /\ gh'.occupied[1] = line
            /\ self'.homos = <<LastIntLessOne(line), LastIntLessOne(gh'.occupied[2])>>
    /\ pc = "SYMMETRIES FOR INITIAL GUESS ORBITALS FOLLOW" /\ err = "none" /\ err' = "none" =>
            self'.homos = IF "BOTH SET(S)" \in line.m THEN <<self.homos[1]>> ELSE self.homos
    /\ \/ pc \notin {"NUMBER OF OCCUPIED ORBITALS", "SYMMETRIES FOR INITIAL GUESS ORBITALS FOLLOW"}
       \/ err' # "none"
       => self'.homos = self.homos

\* a BOTH SET(S) line has cut homos down, at some time / and no NUMBER OF
\* OCCUPIED ORBITALS line has set it since
EverRestricted == \E i \in DOMAIN gh.homos : gh.homos[i] = "both"
RestrictedSinceOccupied ==
    \E i \in DOMAIN gh.homos :
        /\ gh.homos[i] = "both"
        /\ \A j \in (i + 1)..Len(gh.homos) : gh.homos[j] # "occupied"

\* C19 as claimed: the two triggers act as HomosSteps says, and once a
\* BOTH SET(S) line has cut homos down it has one entry for the rest of the
\* parse.
C19_OneEntryForRestOfParse ==
    /\ [][HomosSteps]_vars
    /\ [](EverRestricted => Len(self.homos) = 1)

\* C19, amended: the two triggers act as HomosSteps says; homos has one
\* entry from a BOTH SET(S) line on until the next NUMBER OF OCCUPIED
\* ORBITALS line is gone through, which gives it two entries again.
C19_OneEntryUntilNextOccupied ==
    /\ [][HomosSteps]_vars
    /\ []("homos" \in has =>
            Len(self.homos) = IF RestrictedSinceOccupied THEN 1 ELSE 2)

\* homos was cut down to its first entry, and a later pair of NUMBER OF
\* OCCUPIED ORBITALS lines has set both entries again
C19_Witness ==
    /\ pc = "driver" /\ err = "none"
    /\ gh.homos = <<"occupied", "both", "occupied">>
    /\ self.homos = <<3, 4>>

-----------------------------------------------------------------------------
(* C20: the spin channels of an eigenvector block *)

\* the parse is past the sections of channel ch of an eigenvector block and
\* obtains the line that follows them
AfterSections(ch) ==
    /\ pc = "mo: header" /\ err = "none"
    /\ loc.base >= self.nmo /\ loc.channel = ch
    /\ nread' = nread + 1

\* C20: after an eigenvector block that has completed, and until the next
\* one begins, mocoeffs, moenergies and mosyms have the same number of
\* channels: one when the line that followed the first channel's sections
\* held END OF, two otherwise; a block completes only by obtaining a line
\* that holds END OF; a line without END OF after the first channel's
\* sections opens the second channel, and one after the second channel's
\* sections fails the parse with an assertion error.
C20_ChannelsOfCompletedBlock ==
    /\ [](gh.mostate = "completed" =>
            LET channels == IF "END OF" \in gh.moafter.m THEN 1 ELSE 2
            IN /\ Len(self.mocoeffs) = channels
               /\ Len(self.moenergies) = channels
               /\ Len(self.mosyms) = channels)
    /\ [][/\ gh.mostate # "completed" /\ gh'.mostate = "completed" =>
               /\ AfterSections(0) \/ AfterSections(1)
               /\ "END OF" \in gh'.molast.m
               /\ err' = "none"
          /\ AfterSections(0) \/ AfterSections(1) =>
               gh'.mostate = IF "END OF" \in gh'.molast.m THEN "completed" ELSE "running"
          /\ AfterSections(0) /\ "END OF" \notin gh'.molast.m =>
               /\ err' = "none" /\ pc' = "mo: beta skip"
               /\ Len(self'.mocoeffs) = 2 /\ Len(self'.moenergies) = 2 /\ Len(self'.mosyms) = 2
          /\ AfterSections(1) /\ "END OF" \notin gh'.molast.m =>
               err' = "AssertionError"]_vars

\* a block of two channels has completed: the line after the first channel's
\* sections was empty, the one after the second channel's held END OF
C20_Witness ==
    /\ pc = "driver" /\ err = "none"
    /\ gh.mostate = "completed"
    /\ gh.moafter = BlankLine /\ "END OF" \in gh.molast.m
    /\ Len(self.mocoeffs) = 2 /\ Len(self.moenergies[2]) = self.nmo

-----------------------------------------------------------------------------
(* C21: several eigenvector blocks *)

\* a log of this kind prints the numbers of its k-th eigenvector block 1000 k
\* apart from those of the others: the eigenvalue of orbital r and the
\* coefficient of orbital r, basis function c, channel ch of block k
EnergyOfBlock(k, r) == convertor(r - 11 - k * 1000, "hartree", "eV")
CoeffOfBlock(k, ch, r, c) == k * 1000 + (ch - 1) * 100 + r * 10 + (c - 1)

\* the first eigenvector block of the parse has completed
FirstBlockDone == gh.moblocks >= 2 \/ (gh.moblocks = 1 /\ gh.mostate = "completed")

\* C21: after an eigenvector block has completed, moenergies, mosyms and
\* mocoeffs hold the numbers of that block and nothing of the blocks before
\* it; atombasis and aonames change only in the first eigenvector block, when
\* it begins and in the rows of the first section of its first channel; once
\* the first block has completed aonames has nbasis entries.
C21_LastBlockOnly ==
    /\ [](gh.mostate = "completed" =>
            \A ch \in DOMAIN self.mocoeffs :
                /\ Len(self.moenergies[ch]) = Len(self.mocoeffs[ch])
                /\ Len(self.mosyms[ch]) = Len(self.mocoeffs[ch])
                /\ \A r \in DOMAIN self.mocoeffs[ch] :
                     /\ self.moenergies[ch][r] = EnergyOfBlock(gh.moblocks, r)
                     /\ \A c \in DOMAIN self.mocoeffs[ch][r] :
                          self.mocoeffs[ch][r][c] = CoeffOfBlock(gh.moblocks, ch, r, c))
    /\ [][self'.aonames # self.aonames \/ self'.atombasis # self.atombasis =>
            /\ gh'.moblocks = 1
            /\ \/ pc = "EIGENVECTORS"
               \/ pc = "mo: rows" /\ loc.base = 0 /\ loc.channel = 0]_vars
    /\ [](FirstBlockDone => Len(self.aonames) = self.nbasis)

\* the second block of a log with six basis functions and six orbitals (two
\* sections) has completed
C21_Witness ==
    /\ pc = "driver" /\ err = "none"
    /\ gh.moblocks = 2 /\ gh.mostate = "completed"
    /\ self.nbasis = 6 /\ self.nmo = 6
    /\ Len(self.aonames) = 6
    /\ self.mocoeffs[1][6][1] = CoeffOfBlock(2, 1, 6, 1)

-----------------------------------------------------------------------------
(* C22: the shape of mocoeffs *)

\* every channel of mocoeffs has nmo rows of nbasis entries
ShapeOfMocoeffs(nmo, nbasis) ==
    \A ch \in DOMAIN self.mocoeffs :
        /\ Len(self.mocoeffs[ch]) = nmo
        /\ \A r \in DOMAIN self.mocoeffs[ch] : Len(self.mocoeffs[ch][r]) = nbasis

\* C22 as claimed: wherever the parse ends after a completed eigenvector
\* block, every channel of mocoeffs is nmo x nbasis for the nmo and nbasis the
\* object then has, in whatever order the lines came.
C22_ShapeIsFinalNmoByNbasis ==
    (pc = "driver" /\ gh.mostate = "completed") => ShapeOfMocoeffs(self.nmo, self.nbasis)

\* C22, amended: after a completed eigenvector block every channel of
\* mocoeffs is nmo x nbasis for the nmo and nbasis the object had when that
\* block began, where nmo was taken from nbasis if no line had set it; lines
\* that set nmo or nbasis afterwards leave mocoeffs as it is, so that the
\* shape is that of the final nmo and nbasis only if these did not change
\* after the last block began.
C22_ShapeIsNmoByNbasisOfLastBlock ==
    /\ [](gh.mostate = "completed" => ShapeOfMocoeffs(gh.moshape[1], gh.moshape[2]))
    /\ [][pc = "EIGENVECTORS" /\ err = "none" /\ err' = "none" =>
            /\ self'.nmo = IF "nmo" \in has THEN self.nmo ELSE self.nbasis
            /\ self'.nbasis = self.nbasis
            /\ gh'.moshape = <<self'.nmo, self'.nbasis>>]_vars
    /\ [][pc # "EIGENVECTORS" => gh'.moshape = gh.moshape]_vars
    /\ [][pc \notin {"EIGENVECTORS", "mo: header", "mo: rows"} =>
            self'.mocoeffs = self.mocoeffs]_vars

\* a block of six orbitals has completed and a later line has set nmo to
\* five: mocoeffs still has six rows
C22_Witness ==
    /\ pc = "driver" /\ err = "none"
    /\ gh.mostate = "completed" /\ gh.moshape = <<6, 6>>
    /\ self.nmo = 5 /\ self.nbasis = 6
    /\ ShapeOfMocoeffs(6, 6)

-----------------------------------------------------------------------------
(* C23: the headings that start the eigenvector sub-parser *)

\* C23 as claimed: when extract has returned for a line that carries
\* EIGENVECTORS or MOLECULAR ORBITALS at offset 10, the eigenvector sub-parser
\* has run on it.
C23_BothHeadingsInvokeSubParser ==
    (/\ pc = "driver" /\ err = "none"
     /\ gh.handed.m \cap {"EIGENVECTORS", "MOLECULAR ORBITALS"} # {})
        => (gh.fired = <<"EIGENVECTORS">> /\ gh.mostate = "completed")

-----------------------------------------------------------------------------
(* C24: geotargets *)

\* the fraction a is three times the fraction b
ThreeTimes(a, b) == a.num * b.den = 3 * b.num * a.den

\* C24 as claimed: once set, geotargets holds two thresholds, the first (the
\* one compared with the maximum gradient) three times the second (the one
\* compared with the RMS gradient), and no later step changes it.
C24_MaxThresholdIsThreeTimesRms ==
    /\ []("geotargets" \in has =>
            /\ Len(self.geotargets) = 2
            /\ ThreeTimes(self.geotargets[1], self.geotargets[2]))
    /\ []["geotargets" \in has => self'.geotargets = self.geotargets]_vars

-----------------------------------------------------------------------------
(* C25: the bands of an overlap block *)

\* the lines of the bands of an overlap block from the one that starts at
\* column b on: three header lines and n - b rows each
RECURSIVE BandLines(_, _)
BandLines(n, b) == IF b >= n THEN 0 ELSE 3 + (n - b) + BandLines(n, b + 5)

\* the parse is inside an overlap block whose matrix has one row and one
\* column per basis function
InOverlapBlock ==
    /\ pc \in {"overlap: band header", "overlap: row"} /\ err = "none"
    /\ Dim(self.aooverlaps) = self.nbasis

-----------------------------------------------------------------------------
(* C26: coreelectrons *)

\* coreelectrons list a with the entry of atom x (counted from 1) set to v
WithCore(a, x, v) == [y \in DOMAIN a |-> IF y = x THEN v ELSE a[y]]

ScfPending == Len(self.scftargets) # Len(self.scfvalues)

PassesOn ==
    /\ err = "none" /\ err' = "none"
    /\ pc # "driver" /\ pc' # pc /\ pc' \in Range(Triggers)

EarlierThanMbpt == { "OPTTOL", "FINAL", "RESULTS OF MOLLER-PLESSET", "CCD ENERGY:" }

CcsdPlaces == { "CCSD    ENERGY:", "ccsd: after CCSD[T]" }

\* C28 as stated: when a sub-parser returns, the later triggers are tested
\* against the last line it obtained; here for CHARGE OF MOLECULE, whose last
\* line is the one self.mult is read from.
C28_LaterTriggersSeeLastLineObtained ==
    [][pc = "CHARGE OF MOLECULE" /\ err = "none" /\ err' = "none" =>
            pc' = Goto(After("CHARGE OF MOLECULE"), gh'.multline, self')]_vars

\* C28 amended: a step obtains at most one line and the driver hands extract a
\* line it has just obtained; when a trigger's body ends, the triggers after it
\* in source order, and no others, are tested against the line then bound to
\* `line`: for CCSD ENERGY the last line obtained, so that a line after it that
\* matches OPTTOL, FINAL, MOLLER-PLESSET or CCD ENERGY fires none of them; for
\* CHARGE OF MOLECULE the trigger line itself, the multiplicity line being
\* tested against no trigger.
C28_LaterTriggersSeeBoundLine ==
    /\ [][nread' \in {nread, nread + 1}]_vars
    /\ [][pc = "driver" /\ pc' # "done" =>
            /\ nread' = nread + 1
            /\ pc' = Goto(1, gh'.handed, self)
            /\ (pc' # "driver" => line' = gh'.handed)]_vars
    /\ [][PassesOn =>
            /\ gh'.fired # <<>>
            /\ TriggerIndex(pc') > TriggerIndex(Last(gh'.fired))
            /\ pc' = Goto(After(Last(gh'.fired)), line', self')]_vars
    /\ [][(/\ pc \in CcsdPlaces /\ err = "none" /\ err' = "none"
           /\ pc' # "ccsd: after CCSD[T]") =>
            /\ pc' = Goto(After("CCSD    ENERGY:"), Last(gh'.cclines), self')
            /\ pc' \notin EarlierThanMbpt
            /\ (pc' # "driver" => line' = Last(gh'.cclines))]_vars
    /\ [][pc = "CHARGE OF MOLECULE" /\ err = "none" /\ err' = "none" =>
            /\ nread' = nread + 1
            /\ pc' = Goto(After("CHARGE OF MOLECULE"), line, self')]_vars

\* extract() has returned from CHARGE OF MOLECULE, which took the multiplicity
\* from a TOTAL NUMBER OF ATOMS line: that trigger has not fired
C28_Witness ==
    /\ pc = "driver" /\ err = "none"
    /\ gh.fired = <<"CHARGE OF MOLECULE">>
    /\ Matches("TOTAL NUMBER OF ATOMS", gh.multline, self)
    /\ "mult" \in has /\ "natom" \notin has

\* extract() has returned from CCSD ENERGY, whose last line is a CCD ENERGY
\* line: that trigger has not fired
C28_WitnessCcsd ==
    /\ pc = "driver" /\ err = "none"
    /\ gh.fired = <<"CCSD    ENERGY:">>
    /\ Len(gh.cclines) >= 2 /\ Matches("CCD ENERGY:", Last(gh.cclines), self)
====
